---- MODULE Spec2Model ----
(***************************************************************************)
(* A model of the issue crawler (src/index.js): main() fans out one        *)
(* handleRepository task per configured repository; each task pages        *)
(* through the source, enriches open issues with their timeline, converts  *)
(* and bulk-writes them, and finally writes the timestamp cache.           *)
(* cleanupTransferredIssues is the exported reconciliation sweep.          *)
(* The conditional-fetch revision of the crawler (src/unnamed/part_004),   *)
(* which caches one ETag per page, is modelled next to it.                 *)
(*                                                                         *)
(* One action is one resumption of an async function: the code between two *)
(* awaits runs without interleaving, so an action consumes the result of   *)
(* the call a task was suspended on and runs the code up to the next       *)
(* await (which issues the next call).                                     *)
(***************************************************************************)
EXTENDS Integers, Sequences, FiniteSets, TLC

\* ------------------------------------------------------------------ bounds
\* configured repositories (public and private together)
MaxRepos == 2
\* pages a repository of the source holds
MaxPages == 2
\* raw records a repository of the source holds
MaxRecs == 2
MaxTicks == 1

\* ------------------------------------------------------- values and naming
\* JavaScript null / undefined of a number-valued or a string-valued place
null == -1
NullStr == "null"
\* JavaScript null of an object-valued place
NullObj == [isNull |-> TRUE]

\* strings are sequences of text pieces, so that template strings
\* concatenate; a repository is the pair of its owner and its name
RepoNames == << << <<"o">>, <<"a">> >>, << <<"o">>, <<"b">> >>,
                << <<"o">>, <<"c">> >>, << <<"o">>, <<"d">> >> >>

CACHE_INDEX == <<"crawler-cache">>

\* 'issues-${owner}-${repo}' / 'private-issues-${owner}-${repo}'
IndexName(owner, repo, isPrivate) ==
    (IF isPrivate THEN <<"private-issues-">> ELSE <<"issues-">>)
        \o owner \o <<"-">> \o repo

\* the _id of the cache document: `${owner}_${repo}`
CacheId(owner, repo) == owner \o <<"_">> \o repo

\* repository.split('/') destructured into [owner, repo]
Owner(repository) == repository[1]
Repo(repository) == repository[2]

\* ---------------------------------------------------------------- records
IssueStates == {"open", "closed"}

\* JavaScript null of a list-valued place (no label and no login is "null")
NullSeq == << NullStr >>

\* a raw record of the issue list of the source; it has no timeline field,
\* no assignees and no reactions
RawIssue(id, state) ==
    [id |-> 100 + id, number |-> id, state |-> state, updated_at |-> 0,
     created_at |-> 0, closed_at |-> IF state = "closed" THEN 0 ELSE null,
     labels |-> <<>>]

\* issue.timeline = tl
WithTimeline(issue, tl) ==
    [f \in DOMAIN issue \cup {"timeline"} |->
        IF f = "timeline" THEN tl ELSE issue[f]]

LabeledEvt == [event |-> "labeled", created_at |-> 0,
               previous_repository |-> NullStr, repository |-> NullStr]
TransferredEvt == [event |-> "transferred", created_at |-> 0,
                   previous_repository |-> "old/repo", repository |-> "new/repo"]
\* what the timeline sub-resource can answer for one issue
TimelineResponses == { <<LabeledEvt>>, <<LabeledEvt, TransferredEvt>> }

\* enhanceDate: null for a missing date, else the decomposed instant
\* (instants are hours since the epoch, a Thursday)
enhanceDate(date) ==
    IF date = null THEN NullObj
    ELSE [time |-> date,
          weekday_number |-> ((date \div 24) + 4) % 7,
          hour_of_day |-> date % 24]

\* mutant: the last event of type transferred is taken
RECURSIVE FindTransferred_Last(_)
FindTransferred_Last(tl) ==
    IF tl = <<>> THEN <<>>
    ELSE IF FindTransferred_Last(Tail(tl)) # <<>> THEN FindTransferred_Last(Tail(tl))
    ELSE IF Head(tl).event = "transferred" THEN <<Head(tl)>>
    ELSE <<>>

\* (raw.timeline || []).find(e => e.event === 'transferred')
RECURSIVE FindTransferred(_)
FindTransferred(tl) ==
    IF tl = <<>> THEN <<>>
    ELSE IF Head(tl).event = "transferred" THEN <<Head(tl)>>
    ELSE FindTransferred(Tail(tl))

\* mutant: the difference is taken as soon as the record is closed
time_to_fix_ClosedOnly(raw) ==
    IF raw.closed_at # null
    THEN raw.closed_at - (IF raw.created_at # null THEN raw.created_at ELSE 0)
    ELSE null

\* moment(raw.closed_at).diff(moment(raw.created_at)) if both are there
time_to_fix(raw) ==
    IF raw.created_at # null /\ raw.closed_at # null
    THEN raw.closed_at - raw.created_at
    ELSE null

\* raw.labels.map(label => label.name); a record without labels makes the
\* call throw a TypeError
labels(raw) == [i \in 1..Len(raw.labels) |-> raw.labels[i].name]
convertIssueThrows(raw) == "labels" \notin DOMAIN raw

\* !raw.assignees ? null : raw.assignees.map(a => a.login)
assignees(raw) ==
    IF "assignees" \notin DOMAIN raw THEN NullSeq
    ELSE [i \in 1..Len(raw.assignees) |-> raw.assignees[i].login]

\* the categories of the reaction block of the source
ReactionKeys ==
    {"total_count", "+1", "-1", "laugh", "hooray", "confused", "heart", "rocket", "eyes"}

\* block[key], undefined when the block has no such property
Property(block, key) == IF key \in DOMAIN block THEN block[key] ELSE null

\* !raw.reactions ? null : { total: raw.reactions.total_count, ... }
reactions(raw) ==
    IF "reactions" \notin DOMAIN raw THEN NullObj
    ELSE [total |-> Property(raw.reactions, "total_count"),
          upVote |-> Property(raw.reactions, "+1"),
          downVote |-> Property(raw.reactions, "-1"),
          laugh |-> Property(raw.reactions, "laugh"),
          hooray |-> Property(raw.reactions, "hooray"),
          confused |-> Property(raw.reactions, "confused"),
          heart |-> Property(raw.reactions, "hearts"),
          rocket |-> Property(raw.reactions, "rocket"),
          eyes |-> Property(raw.reactions, "eyes")]

\* mutant: enhanceDate without its guard, a missing date read as the
\* current instant (moment(undefined))
convertIssue_MissingDateIsNow(owner, repo, raw, dateNow) ==
    LET found == FindTransferred(IF "timeline" \in DOMAIN raw
                                 THEN raw.timeline ELSE <<>>)
        has == found # <<>>
    IN [id |-> raw.id,
        last_crawled_at |-> dateNow,
        owner |-> owner,
        repo |-> repo,
        state |-> raw.state,
        number |-> raw.number,
        created_at |-> enhanceDate(raw.created_at),
        updated_at |-> enhanceDate(raw.updated_at),
        closed_at |-> enhanceDate(raw.closed_at),
        labels |-> labels(raw),
        assignees |-> assignees(raw),
        reactions |-> reactions(raw),
        time_to_fix |-> time_to_fix(raw),
        is_transferred |-> has,
        moved_from |-> IF has /\ found[1].previous_repository # NullStr
                       THEN found[1].previous_repository ELSE NullStr,
        moved_to |-> IF has /\ found[1].repository # NullStr
                     THEN found[1].repository ELSE NullStr,
        transferred_at |-> IF has THEN enhanceDate(found[1].created_at)
                           ELSE enhanceDate(dateNow)]

\* mutant: a record whose timeline holds a transfer is given the state
\* transferred by the conversion
convertIssue_TransferredState(owner, repo, raw, dateNow) ==
    LET found == FindTransferred(IF "timeline" \in DOMAIN raw
                                 THEN raw.timeline ELSE <<>>)
        has == found # <<>>
    IN [id |-> raw.id,
        last_crawled_at |-> dateNow,
        owner |-> owner,
        repo |-> repo,
        state |-> IF has THEN "transferred" ELSE raw.state,
        number |-> raw.number,
        created_at |-> enhanceDate(raw.created_at),
        updated_at |-> enhanceDate(raw.updated_at),
        closed_at |-> enhanceDate(raw.closed_at),
        labels |-> labels(raw),
        assignees |-> assignees(raw),
        reactions |-> reactions(raw),
        time_to_fix |-> time_to_fix(raw),
        is_transferred |-> has,
        moved_from |-> IF has /\ found[1].previous_repository # NullStr
                       THEN found[1].previous_repository ELSE NullStr,
        moved_to |-> IF has /\ found[1].repository # NullStr
                     THEN found[1].repository ELSE NullStr,
        transferred_at |-> IF has THEN enhanceDate(found[1].created_at)
                           ELSE NullObj]

\* convertIssue(owner, repo, raw), with the instant Date.now() reads
convertIssue(owner, repo, raw, dateNow) ==
    LET found == FindTransferred(IF "timeline" \in DOMAIN raw
                                 THEN raw.timeline ELSE <<>>)
        has == found # <<>>
    IN [id |-> raw.id,
        last_crawled_at |-> dateNow,
        owner |-> owner,
        repo |-> repo,
        state |-> raw.state,
        number |-> raw.number,
        created_at |-> enhanceDate(raw.created_at),
        updated_at |-> enhanceDate(raw.updated_at),
        closed_at |-> enhanceDate(raw.closed_at),
        labels |-> labels(raw),
        assignees |-> assignees(raw),
        reactions |-> reactions(raw),
        time_to_fix |-> time_to_fix(raw),
        is_transferred |-> has,
        moved_from |-> IF has /\ found[1].previous_repository # NullStr
                       THEN found[1].previous_repository ELSE NullStr,
        moved_to |-> IF has /\ found[1].repository # NullStr
                     THEN found[1].repository ELSE NullStr,
        transferred_at |-> IF has THEN enhanceDate(found[1].created_at)
                           ELSE NullObj]

\* mutant: the id of the index action is made of the id of the issue and of
\* the instant of the crawl
RECURSIVE getIssueBulkUpdates_IdPerCrawl(_, _)
getIssueBulkUpdates_IdPerCrawl(index, issues) ==
    IF issues = <<>> THEN <<>>
    ELSE << [index |-> [_index |-> index,
                        _id |-> Head(issues).id * 1000 + Head(issues).last_crawled_at]],
            Head(issues) >>
         \o getIssueBulkUpdates_IdPerCrawl(index, Tail(issues))

\* mutant: the index actions of all the issues, then the documents
getIssueBulkUpdates_ActionsFirst(index, issues) ==
    [i \in 1..Len(issues) |-> [index |-> [_index |-> index, _id |-> issues[i].id]]]
        \o issues

\* getIssueBulkUpdates: for every issue an index action and the document
RECURSIVE getIssueBulkUpdates(_, _)
getIssueBulkUpdates(index, issues) ==
    IF issues = <<>> THEN <<>>
    ELSE << [index |-> [_index |-> index, _id |-> Head(issues).id]],
            Head(issues) >>
         \o getIssueBulkUpdates(index, Tail(issues))

\* mutant: the later the run, the smaller the timestamp it writes
getTimestampCacheUpdate_Negated(owner, repo, timestamp) ==
    << [index |-> [_index |-> CACHE_INDEX, _id |-> CacheId(owner, repo)]],
       [owner |-> owner, repo |-> repo, timestamp |-> 0 - timestamp] >>

\* getTimestampCacheUpdate: the bulk body that writes the timestamp cache
getTimestampCacheUpdate(owner, repo, timestamp) ==
    << [index |-> [_index |-> CACHE_INDEX, _id |-> CacheId(owner, repo)]],
       [owner |-> owner, repo |-> repo, timestamp |-> timestamp] >>


\* ------------------------------------------------------------- the source
\* the pages of p state lists that hold at most b records together
RECURSIVE PageSeqs(_, _)
PageSeqs(p, b) ==
    IF p = 0 THEN { <<>> }
    ELSE UNION { { <<pg>> \o rest : rest \in PageSeqs(p - 1, b - Len(pg)) } :
                 pg \in UNION { [1..m -> IssueStates] : m \in 0..b } }

RECURSIVE TotalLen(_)
TotalLen(pages) ==
    IF pages = <<>> THEN 0 ELSE Len(Head(pages)) + TotalLen(Tail(pages))

\* one page list per configured repository. A repository holds at least one
\* page (an empty repository answers one empty page). A single repository is
\* explored in depth, up to MaxPages pages and MaxRecs records; when several
\* repositories run concurrently each holds one page, empty but for the
\* page of the last repository, which holds at most one record.
Sources(n) ==
    IF n = 1
    THEN { <<ps>> : ps \in UNION { PageSeqs(k, MaxRecs) : k \in 1..MaxPages } }
    ELSE { [t \in 1..n |-> IF t = n THEN ps ELSE << <<>> >>] : ps \in PageSeqs(1, 1) }

\* the url of a request: the route template of the first request, or the
\* link target of a later page; Undefined is JavaScript's undefined
RouteUrl == [route |-> "/repos/{owner}/{repo}/issues", page |-> 1]
LinkUrl(k) == [route |-> "link", page |-> k]
Undefined == [isUndefined |-> TRUE]

\* the text of a link header, piece by piece: a piece of punctuation or a
\* word, or a url (whose characters hold neither < nor >)
Tok(c) == [ch |-> c]
UrlTok(u) == [url |-> u]

\* one link of the header as the source writes it: <url>; rel="name"
FormatLink(u, rel) ==
    << Tok("<"), UrlTok(u), Tok(">"), Tok(";"), Tok(" "),
       Tok("rel="), Tok("\""), Tok(rel), Tok("\"") >>

\* the links joined by ", "
RECURSIVE JoinLinks(_)
JoinLinks(links) ==
    IF links = <<>> THEN <<>>
    ELSE IF Len(links) = 1 THEN Head(links)
    ELSE Head(links) \o << Tok(","), Tok(" ") >> \o JoinLinks(Tail(links))

\* the link header of page k out of n: prev and first before, next and last
\* after; a single page has no link header ('' stands for the missing one)
LinkHeader(k, n) ==
    JoinLinks(
      (IF k > 1 THEN << FormatLink(LinkUrl(k - 1), "prev") >> ELSE <<>>)
      \o (IF k < n THEN << FormatLink(LinkUrl(k + 1), "next"),
                           FormatLink(LinkUrl(n), "last") >> ELSE <<>>)
      \o (IF k > 1 THEN << FormatLink(LinkUrl(1), "first") >> ELSE <<>>))

\* the text rel="next" stands at position j of the header
RelNextAt(link, j) ==
    /\ j + 3 <= Len(link)
    /\ link[j] = Tok("rel=")
    /\ link[j + 1] = Tok("\"")
    /\ link[j + 2] = Tok("next")
    /\ link[j + 3] = Tok("\"")

\* the places e of the > that closes a match of <([^<>]+)>;\s*rel="next"
\* beginning at position i
MatchEnds(link, i) ==
    { e \in (i + 2)..Len(link) :
        /\ link[i] = Tok("<")
        /\ \A x \in (i + 1)..(e - 1) : link[x] \notin {Tok("<"), Tok(">")}
        /\ link[e] = Tok(">")
        /\ e + 1 <= Len(link)
        /\ link[e + 1] = Tok(";")
        /\ \E j \in (e + 2)..Len(link) :
              /\ \A x \in (e + 2)..(j - 1) : link[x] = Tok(" ")
              /\ RelNextAt(link, j) }

\* what the group of a match holds: the url, if that is all it holds
Captured(link, i, e) ==
    IF e = i + 2 /\ "url" \in DOMAIN link[i + 1]
    THEN link[i + 1].url ELSE [text |-> SubSeq(link, i + 1, e - 1)]

\* mutant: the target of the first link, whatever its rel
NextUrl_FirstLink(link) ==
    LET starts == { i \in 1..Len(link) :
                      /\ link[i] = Tok("<")
                      /\ i + 2 <= Len(link)
                      /\ link[i + 2] = Tok(">") }
    IN IF starts = {} THEN Undefined
       ELSE LET i == CHOOSE x \in starts : \A y \in starts : x <= y
            IN Captured(link, i, i + 2)

\* ((link || '').match(/<([^<>]+)>;\s*rel="next"/) || [])[1]: the group of
\* the leftmost match
NextUrl(link) ==
    LET starts == { i \in 1..Len(link) : MatchEnds(link, i) # {} }
    IN IF starts = {} THEN Undefined
       ELSE LET i == CHOOSE x \in starts : \A y \in starts : x <= y
                e == CHOOSE x \in MatchEnds(link, i) : TRUE
            IN Captured(link, i, e)

\* mutant: any link header counts as "there is a next page"
HasNextRel_AnyLink(link) == link # <<>>

\* link && link.includes('rel="next"')
HasNextRel(link) ==
    link # <<>> /\ \E j \in 1..Len(link) : RelNextAt(link, j)


\* ------------------------------------------------------------------ state
VARIABLES
    config,      \* config.repos and config.privateRepos, and the revision
                 \* of the crawler that is deployed (its watermark mode)
    src,         \* per task, the pages (lists of issue states) of its repository
    now,         \* the clock
    lazyClient,  \* how many sink clients were constructed (0: lazyClient unset)
    es,          \* the issue indices of the sink: <<index, id>> -> document
    cache,       \* the CACHE_INDEX of the sink: id -> document
    task,        \* per task, the frame of its handleRepository call
    exitCode,    \* null while the process runs, else its exit status
    sweep,       \* the frame of the cleanupTransferredIssues call
    probe        \* per issue number, the status the source answers to
                 \* octokit.issues.get (no entry: 200)

vars == << config, src, now, lazyClient, es, cache, task, exitCode, sweep, probe >>

\* the calls of main(): config.repos first, then config.privateRepos
Repositories == config.repos \o config.privateRepos
Tasks == 1..Len(Repositories)
IsPrivate(t) == t > Len(config.repos)
OwnerOf(t) == Owner(Repositories[t])
RepoOf(t) == Repo(Repositories[t])
IndexOf(t) == IndexName(OwnerOf(t), RepoOf(t), IsPrivate(t))

\* mutant: a client is constructed at every call
getLazyClient_Fresh(n) == n + 1

\* getLazyClient(): constructs the client on the first call only
getLazyClient(n) == IF n = 0 THEN 1 ELSE n

\* the raw records of page k of task t's repository, numbered through
RawPage(t, k) ==
    LET before == TotalLen(SubSeq(src[t], 1, k - 1))
    IN [i \in 1..Len(src[t][k]) |-> RawIssue(before + i, src[t][k][i])]

\* what the source answers to a request for `url`
Response(t, reqUrl) ==
    [data |-> RawPage(t, reqUrl.page),
     link |-> LinkHeader(reqUrl.page, Len(src[t]))]

NoResponse == [data |-> <<>>, link |-> <<>>]

\* the frame of cleanupTransferredIssues while it is not called
NoSweep ==
    [pc |-> "idle", target |-> 0, hits |-> <<>>, doc |-> 0, body |-> <<>>,
     \* what the sweeps have done so far
     run |-> 0, notFound |-> {}, transitions |-> {}, updateErrors |-> {},
     probes |-> <<>>, updates |-> <<>>, completed |-> {}]

\* the frame of a handleRepository call that has not run yet
NewTask ==
    [pc |-> "init", lastFetchTimestamp |-> null, currentTimestamp |-> null,
     page |-> 0, url |-> Undefined, shouldCheckNextPage |-> FALSE,
     response |-> NoResponse, pending |-> {}, body |-> <<>>, keys |-> <<>>,
     \* what the task has done so far (its calls and its log lines)
     requests |-> <<>>, fetched |-> 0, timelineCalls |-> <<>>, bulkCalls |-> <<>>,
     warnings |-> {}, written |-> <<>>, errors |-> <<>>, timestampWrites |-> 0,
     notModified |-> {}, converted |-> {}, committed |-> <<>>, thrown |-> {},
     \* the "Failed to load cache" lines of the log
     cacheErrors |-> 0,
     \* the cache documents of the repository when the run began
     cacheAtStart |-> <<>>,
     \* the number of the run of the crawler the call belongs to
     run |-> 1]

\* the documents of the cache index that belong to task t's repository
CacheOf(t) ==
    LET ids == { id \in DOMAIN cache : /\ cache[id].owner = OwnerOf(t)
                                       /\ cache[id].repo = RepoOf(t) }
    IN [id \in ids |-> cache[id]]

\* the configurations: n repositories, the first k public, the others private
Configs(mode) ==
    UNION { { [repos |-> SubSeq(RepoNames, 1, k),
               privateRepos |-> SubSeq(RepoNames, k + 1, n),
               mode |-> mode] : k \in 0..n } :
            n \in 1..MaxRepos }

Init ==
    /\ config \in Configs("timestamp")
    /\ src \in Sources(Len(config.repos) + Len(config.privateRepos))
    /\ now = 1
    /\ lazyClient = 0
    /\ es = << >>
    /\ \E firstRun \in BOOLEAN :
          cache = IF firstRun THEN << >>
                  ELSE [id \in { CacheId(Owner(Repositories[t]), Repo(Repositories[t])) :
                                 t \in 1..Len(Repositories) } |->
                        LET r == Repositories[CHOOSE t \in 1..Len(Repositories) :
                                   CacheId(Owner(Repositories[t]), Repo(Repositories[t])) = id]
                        IN [owner |-> Owner(r), repo |-> Repo(r), timestamp |-> 0]]
    /\ task = [t \in 1..Len(Repositories) |->
                 [NewTask EXCEPT !.cacheAtStart = CacheOf(t)]]
    /\ exitCode = null
    /\ sweep = NoSweep
    /\ probe = << >>


\* ------------------------------------------------- handleRepository, pieces
\* mutant: options.since is set for the first page only
RequestPage_SinceFirstOnly(s) ==
    [s EXCEPT !.pc = "listForRepo",
              !.requests = Append(@, [url |-> s.url,
                                      since |-> IF s.page = 1 THEN s.lastFetchTimestamp
                                                ELSE null,
                                      page |-> s.page])]

\* the head of the while loop: the next listForRepo request is sent
RequestPage(s) ==
    [s EXCEPT !.pc = "listForRepo",
              !.requests = Append(@, [url |-> s.url, since |-> s.lastFetchTimestamp,
                                      page |-> s.page])]

\* mutant: the timestamp written is the instant at which the loop is left
LoopOrFinish_StampAtEnd(s, owner, repo) ==
    IF s.shouldCheckNextPage
    THEN RequestPage(s)
    ELSE [s EXCEPT !.pc = "timestampBulk",
                   !.body = getTimestampCacheUpdate(owner, repo, now),
                   !.timestampWrites = @ + 1]

\* while (shouldCheckNextPage) ...; after the loop the timestamp cache is
\* written with the timestamp taken before the first request
LoopOrFinish(s, owner, repo) ==
    IF s.shouldCheckNextPage
    THEN RequestPage(s)
    ELSE [s EXCEPT !.pc = "timestampBulk",
                   !.body = getTimestampCacheUpdate(owner, repo, s.currentTimestamp),
                   !.timestampWrites = @ + 1]

\* processGitHubIssues has returned: shouldCheckNextPage = link && ..., page++
AfterProcess(s, owner, repo) ==
    LoopOrFinish([s EXCEPT !.shouldCheckNextPage = HasNextRel(s.response.link),
                           !.page = @ + 1,
                           !.response = NoResponse,
                           !.pending = {}],
                 owner, repo)

\* mutant: the bulk write is sent but not awaited
WriteIssues_NoAwait(s, owner, repo, indexName, dateNow) ==
    AfterProcess([s EXCEPT !.bulkCalls = Append(@, [page |-> s.page,
                                                    items |-> Len(s.response.data)])],
                 owner, repo)

\* every timeline is in: convert the enriched records and send the bulk
\* body; a TypeError of convertIssue is caught in the page loop, logged and
\* thrown again
WriteIssues(s, owner, repo, indexName, dateNow) ==
    LET enriched == s.response.data
        issues == [i \in 1..Len(enriched) |-> convertIssue(owner, repo, enriched[i], dateNow)]
        bulkIssues == getIssueBulkUpdates(indexName, issues)
        throwing == { i \in 1..Len(enriched) : convertIssueThrows(enriched[i]) }
    IN IF throwing # {}
       THEN [s EXCEPT !.pc = "rejected", !.response = NoResponse,
                      !.thrown = @ \cup { enriched[i] : i \in throwing }]
       ELSE [s EXCEPT !.pc = "bulk",
                 !.body = bulkIssues,
                 !.bulkCalls = Append(@, [page |-> s.page, items |-> Len(bulkIssues) \div 2]),
                 !.converted = @ \cup { [raw |-> enriched[i], doc |-> issues[i]] :
                                          i \in 1..Len(enriched) }]

\* the record the sink last accepted for each id, and how many times in a
\* row it has accepted that same record
Commit(committed, data, failed) ==
    LET accepted == { i \in 1..Len(data) : i \notin failed }
        rawOf(id) == data[CHOOSE i \in accepted : data[i].id = id]
    IN [id \in DOMAIN committed \cup { data[i].id : i \in accepted } |->
          IF \E i \in accepted : data[i].id = id
          THEN [raw |-> rawOf(id),
                times |-> IF id \in DOMAIN committed /\ committed[id].raw = rawOf(id)
                          THEN committed[id].times + 1 ELSE 1]
          ELSE committed[id]]

\* mutant: rejected items make processGitHubIssues throw
AfterBulk_Throw(s, failed, owner, repo) ==
    IF failed # {}
    THEN [s EXCEPT !.pc = "rejected", !.body = <<>>, !.response = NoResponse,
                   !.errors = Append(@, [page |-> s.page, items |-> failed])]
    ELSE AfterProcess([s EXCEPT !.body = <<>>, !.written = Append(@, s.page)],
                      owner, repo)

\* bulk({ body }) has answered with the items in `failed` rejected: if
\* (esResult.errors) they are logged, and processGitHubIssues returns
AfterBulk(s, failed, owner, repo) ==
    AfterProcess([s EXCEPT !.body = <<>>,
                           !.written = Append(@, s.page),
                           !.committed = Commit(@, s.response.data, failed),
                           !.errors = IF failed # {}
                                      THEN Append(@, [page |-> s.page, items |-> failed])
                                      ELSE @],
                 owner, repo)

\* mutant: the timeline is asked for whatever the state of the record
NeedsTimeline_Always(issue) == issue.state \in IssueStates

\* the records the enrichment asks a timeline for
NeedsTimeline(issue) == issue.state = "open"

\* mutant: the bulk write is sent whether or not the page holds records
ProcessGitHubIssues_AlwaysWrite(s, owner, repo, indexName, dateNow) ==
    LET data == s.response.data
        open == { i \in 1..Len(data) : NeedsTimeline(data[i]) }
        calls == [i \in 1..Len(data) |-> [page |-> s.page, issue_number |-> data[i].number]]
        s1 == [s EXCEPT !.response.data =
                  [i \in 1..Len(data) |-> IF i \in open THEN data[i]
                                          ELSE WithTimeline(data[i], <<>>)]]
    IN IF open # {}
       THEN [s1 EXCEPT !.pc = "timeline",
                       !.pending = open,
                       !.timelineCalls = @ \o SelectSeq(calls,
                           LAMBDA c : \E i \in open : data[i].number = c.issue_number)]
       ELSE WriteIssues(s1, owner, repo, indexName, dateNow)

\* processGitHubIssues up to its first await: the map callback has run for
\* every record, up to the timeline request for an open one, to its end
\* (issue.timeline = []) for any other
ProcessGitHubIssues(s, owner, repo, indexName, dateNow) ==
    LET data == s.response.data
        open == { i \in 1..Len(data) : NeedsTimeline(data[i]) }
        calls == [i \in 1..Len(data) |-> [page |-> s.page, issue_number |-> data[i].number]]
        s1 == [s EXCEPT !.response.data =
                  [i \in 1..Len(data) |-> IF i \in open THEN data[i]
                                          ELSE WithTimeline(data[i], <<>>)]]
    IN IF Len(data) > 0
       THEN IF open # {}
            THEN [s1 EXCEPT !.pc = "timeline",
                            !.pending = open,
                            !.timelineCalls = @ \o SelectSeq(calls,
                                LAMBDA c : \E i \in open : data[i].number = c.issue_number)]
            ELSE WriteIssues(s1, owner, repo, indexName, dateNow)
       ELSE AfterProcess(s, owner, repo)

\* mutant: an index action leaves a stored document whose state is
\* transferred as it is
RECURSIVE ApplyBulk_KeepTransferred(_, _, _, _)
ApplyBulk_KeepTransferred(store, body, failed, k) ==
    IF body = <<>> THEN store
    ELSE LET key == << body[1].index._index, body[1].index._id >>
             kept == key \in DOMAIN store /\ store[key].state = "transferred"
             next == IF k \in failed \/ kept THEN store
                     ELSE [x \in DOMAIN store \cup {key} |->
                             IF x = key THEN body[2] ELSE store[x]]
         IN ApplyBulk_KeepTransferred(next, SubSeq(body, 3, Len(body)), failed, k + 1)

\* mutant: an index action merges: the relocation facts of a stored document
\* that has them are kept
RECURSIVE ApplyBulk_KeepRelocation(_, _, _, _)
ApplyBulk_KeepRelocation(store, body, failed, k) ==
    IF body = <<>> THEN store
    ELSE LET key == << body[1].index._index, body[1].index._id >>
             kept == key \in DOMAIN store /\ store[key].is_transferred
             doc == IF kept
                    THEN [body[2] EXCEPT !.is_transferred = TRUE,
                                         !.moved_from = store[key].moved_from,
                                         !.moved_to = store[key].moved_to,
                                         !.transferred_at = store[key].transferred_at]
                    ELSE body[2]
             next == IF k \in failed THEN store
                     ELSE [x \in DOMAIN store \cup {key} |->
                             IF x = key THEN doc ELSE store[x]]
         IN ApplyBulk_KeepRelocation(next, SubSeq(body, 3, Len(body)), failed, k + 1)

\* the bulk body applied by the sink: every index action whose position is
\* not in `failed` stores its document under <<_index, _id>>
RECURSIVE ApplyBulk(_, _, _, _)
ApplyBulk(store, body, failed, k) ==
    IF body = <<>> THEN store
    ELSE LET key == << body[1].index._index, body[1].index._id >>
             next == IF k \in failed THEN store
                     ELSE [x \in DOMAIN store \cup {key} |->
                             IF x = key THEN body[2] ELSE store[x]]
         IN ApplyBulk(next, SubSeq(body, 3, Len(body)), failed, k + 1)


\* ---------------------------------------------------------------- actions
\* main(): every handleRepository call runs up to its first await, the cache
\* search of loadCacheForRepo; Promise.allSettled then waits for them all
Main ==
    /\ exitCode = null
    /\ \A t \in Tasks : task[t].pc = "init"
    /\ lazyClient' = getLazyClient(lazyClient)
    /\ task' = [t \in Tasks |-> [task[t] EXCEPT !.pc = "loadCache"]]
    /\ UNCHANGED << config, src, now, es, cache, exitCode, sweep, probe >>

\* the timestamps the cache search of loadCacheForRepo can hit (size: 1)
CacheHits(owner, repo) ==
    { cache[id].timestamp : id \in { i \in DOMAIN cache :
                                      cache[i].owner = owner /\ cache[i].repo = repo } }

\* what handleRepository does once loadCacheForRepo has returned `timestamp`:
\* take the current timestamp and send the first request
StartPaging(t, timestamp) ==
    task' = [task EXCEPT ![t] =
                RequestPage([@ EXCEPT !.lastFetchTimestamp = timestamp,
                                      !.currentTimestamp = now,
                                      !.page = 1,
                                      !.shouldCheckNextPage = TRUE,
                                      !.url = RouteUrl])]

\* loadCacheForRepo: the search answers
LoadCacheReturn(t) ==
    /\ task[t].pc = "loadCache"
    /\ LET hits == CacheHits(OwnerOf(t), RepoOf(t))
       IN IF hits # {}
          THEN \E ts \in hits : StartPaging(t, ts)
          ELSE StartPaging(t, null)
    /\ UNCHANGED << config, src, now, lazyClient, es, cache, exitCode, sweep, probe >>

\* mutant: the error of the cache search is logged and thrown again
LoadCacheThrow_Fatal(t) ==
    /\ task[t].pc = "loadCache"
    /\ task' = [task EXCEPT ![t].pc = "rejected", ![t].cacheErrors = @ + 1]
    /\ UNCHANGED << config, src, now, lazyClient, es, cache, exitCode, sweep, probe >>

\* loadCacheForRepo: the search throws; the error is logged, null returned
LoadCacheThrow(t) ==
    /\ task[t].pc = "loadCache"
    /\ task' = [task EXCEPT ![t] =
                   RequestPage([@ EXCEPT !.cacheErrors = @ + 1,
                                         !.lastFetchTimestamp = null,
                                         !.currentTimestamp = now,
                                         !.page = 1,
                                         !.shouldCheckNextPage = TRUE,
                                         !.url = RouteUrl])]
    /\ UNCHANGED << config, src, now, lazyClient, es, cache, exitCode, sweep, probe >>

\* octokit.issues.listForRepo answers a page
ListForRepoReturn(t) ==
    /\ task[t].pc = "listForRepo"
    /\ task[t].url # Undefined
    /\ LET response == Response(t, task[t].url)
           s == [task[t] EXCEPT !.response = response,
                                !.fetched = @ + 1,
                                !.url = NextUrl(response.link)]
       IN task' = [task EXCEPT ![t] =
                      ProcessGitHubIssues(s, OwnerOf(t), RepoOf(t), IndexOf(t), now)]
    /\ lazyClient' = IF task'[t].pc \in {"bulk", "timestampBulk"}
                     THEN getLazyClient(lazyClient) ELSE lazyClient
    /\ UNCHANGED << config, src, now, es, cache, exitCode, sweep, probe >>

\* octokit.issues.listForRepo fails for good: logged and thrown again, the
\* promise of handleRepository is rejected
ListForRepoThrow(t) ==
    /\ task[t].pc = "listForRepo"
    /\ task' = [task EXCEPT ![t].pc = "rejected"]
    /\ UNCHANGED << config, src, now, lazyClient, es, cache, exitCode, sweep, probe >>

\* mutant: Promise.race in the place of Promise.all, the first request
\* settled lets the conversion and the bulk write go on
SettleTimeline_Race(t, i, timeline, failed) ==
    LET data == task[t].response.data
        s == [task[t] EXCEPT !.response.data[i] = WithTimeline(data[i], timeline),
                             !.pending = @ \ {i},
                             !.warnings = IF failed
                                          THEN @ \cup {[page |-> task[t].page,
                                                        issue_number |-> data[i].number]}
                                          ELSE @]
    IN task' = [task EXCEPT ![t] =
                   WriteIssues(s, OwnerOf(t), RepoOf(t), IndexOf(t), now)]

\* one timeline request of the page is settled with `timeline`; the last one
\* lets Promise.all go on to the conversion and the bulk write
SettleTimeline(t, i, timeline, failed) ==
    LET data == task[t].response.data
        s == [task[t] EXCEPT !.response.data[i] = WithTimeline(data[i], timeline),
                             !.pending = @ \ {i},
                             !.warnings = IF failed
                                          THEN @ \cup {[page |-> task[t].page,
                                                        issue_number |-> data[i].number]}
                                          ELSE @]
    IN task' = [task EXCEPT ![t] =
                   IF s.pending = {}
                   THEN WriteIssues(s, OwnerOf(t), RepoOf(t), IndexOf(t), now)
                   ELSE s]

\* octokit.issues.listEventsForTimeline answers: issue.timeline = tl.data
TimelineReturn(t) ==
    /\ task[t].pc = "timeline"
    /\ \E i \in task[t].pending : \E tl \in TimelineResponses :
          SettleTimeline(t, i, tl, FALSE)
    /\ lazyClient' = IF task'[t].pc \in {"bulk", "timestampBulk"}
                     THEN getLazyClient(lazyClient) ELSE lazyClient
    /\ UNCHANGED << config, src, now, es, cache, exitCode, sweep, probe >>

\* mutant: the failure of a timeline request is not caught, Promise.all
\* rejects and the error leaves processGitHubIssues
TimelineThrow_Uncaught(t) ==
    /\ task[t].pc = "timeline"
    /\ \E i \in task[t].pending :
          task' = [task EXCEPT ![t].pc = "rejected",
                               ![t].warnings = @ \cup {[page |-> task[t].page,
                                   issue_number |-> task[t].response.data[i].number]}]
    /\ UNCHANGED << config, src, now, lazyClient, es, cache, exitCode, sweep, probe >>

\* octokit.issues.listEventsForTimeline fails: a warning, issue.timeline = []
TimelineThrow(t) ==
    /\ task[t].pc = "timeline"
    /\ \E i \in task[t].pending : SettleTimeline(t, i, <<>>, TRUE)
    /\ lazyClient' = IF task'[t].pc \in {"bulk", "timestampBulk"}
                     THEN getLazyClient(lazyClient) ELSE lazyClient
    /\ UNCHANGED << config, src, now, es, cache, exitCode, sweep, probe >>

\* bulk({ body }) of a page answers; `failed` are the items the sink rejected
\* (esResult.errors: they are logged); then the loop goes on
BulkReturn(t) ==
    /\ task[t].pc = "bulk"
    /\ \E failed \in SUBSET (1..(Len(task[t].body) \div 2)) :
          /\ es' = ApplyBulk(es, task[t].body, failed, 1)
          /\ task' = [task EXCEPT ![t] = AfterBulk(@, failed, OwnerOf(t), RepoOf(t))]
    /\ lazyClient' = IF task'[t].pc = "timestampBulk"
                     THEN getLazyClient(lazyClient) ELSE lazyClient
    /\ UNCHANGED << config, src, now, cache, exitCode, sweep, probe >>

\* mutant: the error of the bulk write is logged and the loop goes on
BulkThrow_Swallowed(t) ==
    /\ task[t].pc = "bulk"
    /\ task' = [task EXCEPT ![t] =
                   AfterProcess([@ EXCEPT !.body = <<>>], OwnerOf(t), RepoOf(t))]
    /\ UNCHANGED << config, src, now, lazyClient, es, cache, exitCode, sweep, probe >>

\* bulk({ body }) of a page throws: caught in the loop, logged, thrown again
BulkThrow(t) ==
    /\ task[t].pc = "bulk"
    /\ task' = [task EXCEPT ![t].pc = "rejected", ![t].body = <<>>,
                            ![t].response = NoResponse]
    /\ UNCHANGED << config, src, now, lazyClient, es, cache, exitCode, sweep, probe >>

\* bulk({ body: updateTimestampCache }) answers (its result is not looked
\* at): the cache document is stored, handleRepository is fulfilled
TimestampBulkReturn(t) ==
    /\ task[t].pc = "timestampBulk"
    /\ LET id == task[t].body[1].index._id
       IN cache' = [x \in DOMAIN cache \cup {id} |->
                      IF x = id THEN task[t].body[2] ELSE cache[x]]
    /\ task' = [task EXCEPT ![t].pc = "fulfilled", ![t].body = <<>>]
    /\ UNCHANGED << config, src, now, lazyClient, es, exitCode, sweep, probe >>

\* bulk({ body: updateTimestampCache }) throws: handleRepository is rejected
TimestampBulkThrow(t) ==
    /\ task[t].pc = "timestampBulk"
    /\ task' = [task EXCEPT ![t].pc = "rejected", ![t].body = <<>>]
    /\ UNCHANGED << config, src, now, lazyClient, es, cache, exitCode, sweep, probe >>

\* mutant: Promise.all in the place of Promise.allSettled, the first
\* rejection ends main()
AllSettled_FailFast ==
    /\ exitCode = null
    /\ \/ \A t \in Tasks : task[t].pc \in {"fulfilled", "rejected"}
       \/ \E t \in Tasks : task[t].pc = "rejected"
    /\ exitCode' = IF \E t \in Tasks : task[t].pc = "rejected" THEN 1 ELSE 0
    /\ UNCHANGED << config, src, now, lazyClient, es, cache, task, sweep, probe >>

\* mutant: the exit status is 1 only if every task was rejected
AllSettled_Every ==
    /\ exitCode = null
    /\ \A t \in Tasks : task[t].pc \in {"fulfilled", "rejected"}
    /\ exitCode' = IF \A t \in Tasks : task[t].pc = "rejected" THEN 1 ELSE 0
    /\ UNCHANGED << config, src, now, lazyClient, es, cache, task, sweep, probe >>

\* Promise.allSettled resolves once every task is settled; main() exits
\* with status 1 if a task was rejected
AllSettled ==
    /\ exitCode = null
    /\ \A t \in Tasks : task[t].pc \in {"fulfilled", "rejected"}
    /\ exitCode' = IF \E t \in Tasks : task[t].pc = "rejected" THEN 1 ELSE 0
    /\ UNCHANGED << config, src, now, lazyClient, es, cache, task, sweep, probe >>

Next ==
    \/ Main
    \/ \E t \in Tasks : LoadCacheReturn(t)
    \/ \E t \in Tasks : LoadCacheThrow(t)
    \/ \E t \in Tasks : ListForRepoReturn(t)
    \/ \E t \in Tasks : ListForRepoThrow(t)
    \/ \E t \in Tasks : TimelineReturn(t)
    \/ \E t \in Tasks : TimelineThrow(t)
    \/ \E t \in Tasks : BulkReturn(t)
    \/ \E t \in Tasks : BulkThrow(t)
    \/ \E t \in Tasks : TimestampBulkReturn(t)
    \/ \E t \in Tasks : TimestampBulkThrow(t)
    \/ AllSettled

Spec == Init /\ [][Next]_vars

\* ---------------------------------------------------------------------
\* the crawler run again and again (crawl.sh: yarn start), one run after
\* the other, while the clock that new Date() reads moves on
\* ---------------------------------------------------------------------
MaxRuns == 2

\* one repository is crawled, of one record at most
InitRuns == Init /\ Len(Repositories) = 1 /\ TotalLen(src[1]) <= 1

\* the clock moves on
Tick ==
    /\ now < 1 + MaxTicks
    /\ now' = now + 1
    /\ UNCHANGED << config, src, lazyClient, es, cache, task, exitCode, sweep, probe >>

\* the process has exited and yarn start runs index.js again: a new process
\* with no client yet and new handleRepository frames; the index and
\* the cache are as the former run left them
Rerun ==
    /\ exitCode # null
    /\ \A t \in Tasks : task[t].run < MaxRuns
    /\ exitCode' = null
    /\ lazyClient' = 0
    /\ task' = [t \in Tasks |-> [NewTask EXCEPT !.cacheAtStart = CacheOf(t),
                                                 !.converted = task[t].converted,
                                                 !.committed = task[t].committed,
                                                 !.run = task[t].run + 1]]
    /\ UNCHANGED << config, src, now, es, cache, sweep, probe >>

NextRuns ==
    \/ Next
    \/ Tick
    \/ Rerun

SpecRuns == InitRuns /\ [][NextRuns]_vars

\* ---------------------------------------------------------------------
\* the crawler run again and again while the records change at the source
\* ---------------------------------------------------------------------
\* an open issue is closed at the source; listForRepo (state: 'all') answers
\* it as closed from then on
CloseAtSource ==
    /\ \E t \in Tasks : \E k \in 1..Len(src[t]) : \E i \in 1..Len(src[t][k]) :
          /\ src[t][k][i] = "open"
          /\ src' = [src EXCEPT ![t][k][i] = "closed"]
    /\ UNCHANGED << config, now, lazyClient, es, cache, task, exitCode, sweep, probe >>

\* one public repository of one record at most
InitSourceChanges == InitRuns /\ config.privateRepos = <<>>

NextSourceChanges ==
    \/ NextRuns
    \/ CloseAtSource

SpecSourceChanges == InitSourceChanges /\ [][NextSourceChanges]_vars

\* ---------------------------------------------------------------------
\* convertIssue and the bulk body, for records of every shape the source can
\* answer: processGitHubIssues holds one enriched record and converts it
\* ---------------------------------------------------------------------

\* [f |-> rec[f]] without the fields of `fields`
Without(rec, fields) == [f \in DOMAIN rec \ fields |-> rec[f]]

\* a reaction block, a different count in every category
ReactionBlock ==
    [k \in ReactionKeys |->
        CASE k = "total_count" -> 40 [] k = "+1" -> 3 [] k = "-1" -> 1
          [] k = "laugh" -> 2 [] k = "hooray" -> 4 [] k = "confused" -> 6
          [] k = "heart" -> 7 [] k = "rocket" -> 8 [] k = "eyes" -> 9]

\* a second transfer, later than TransferredEvt, and a transfer event that
\* names no repository and has no date
LaterTransferredEvt == [event |-> "transferred", created_at |-> 30,
                        previous_repository |-> "new/repo", repository |-> "last/repo"]
BareTransferredEvt == [event |-> "transferred", created_at |-> null,
                       previous_repository |-> NullStr, repository |-> NullStr]
TimelineInputs ==
    { <<>>, <<LabeledEvt>>, <<LabeledEvt, TransferredEvt>>,
      <<TransferredEvt, LaterTransferredEvt>>, <<BareTransferredEvt, TransferredEvt>> }

\* the records: every field that can be missing is there or not
RawInputs ==
    LET full == { [id |-> 101, number |-> 1, state |-> st, updated_at |-> 50,
                   created_at |-> cr, closed_at |-> cl,
                   labels |-> lb, assignees |-> as, reactions |-> ReactionBlock,
                   timeline |-> tl] :
                  st \in IssueStates, cr \in {null, 26}, cl \in {null, 49},
                  lb \in { <<>>, << [name |-> "bug"], [name |-> "help wanted"] >> },
                  as \in { <<>>, << [login |-> "user1"], [login |-> "user2"] >> },
                  tl \in TimelineInputs }
        missing == SUBSET {"labels", "assignees", "reactions", "timeline"}
    IN { Without(r, m) : r \in full, m \in missing }

InitConvert ==
    /\ config \in { c \in Configs("timestamp") : Len(c.repos) + Len(c.privateRepos) = 1 }
    /\ src = [t \in Tasks |-> << <<>> >>]
    /\ now = 1
    /\ lazyClient = 0
    /\ es = << >>
    /\ cache = << >>
    /\ \E raw \in RawInputs :
          task = [t \in Tasks |->
                    [NewTask EXCEPT !.pc = "enriched", !.page = 1,
                                    !.response = [data |-> <<raw>>, link |-> <<>>]]]
    /\ exitCode = null
    /\ sweep = NoSweep
    /\ probe = << >>

\* response.data.map(issue => convertIssue(owner, repo, issue)) and
\* getIssueBulkUpdates(indexName, issues)
ConvertPage(t) ==
    /\ task[t].pc = "enriched"
    /\ task' = [task EXCEPT ![t] = WriteIssues(@, OwnerOf(t), RepoOf(t), IndexOf(t), now)]
    /\ UNCHANGED << config, src, now, lazyClient, es, cache, exitCode, sweep, probe >>

NextConvert ==
    \/ \E t \in Tasks : ConvertPage(t)
    \/ Tick

SpecConvert == InitConvert /\ [][NextConvert]_vars


\* ------------------------------------- the conditional-fetch revision
\* (src/unnamed/part_004): listForRepo is asked page by page with the cached
\* ETag of the page, and the cache key of a page is written in the bulk write
\* of the page's documents; there is no timestamp cache.

\* the ETag the source has for a page now, and the one a former run cached
\* for a page that has changed since
CurrentEtag == 1
StaleEtag == 0

\* the _id of the cache document of a page: `${owner}_${repo}_${page}`
CacheKeyId(owner, repo, page) ==
    owner \o <<"_">> \o repo \o <<"_">> \o <<page>>

\* getCacheKeyUpdate: the bulk body that writes the cache key of a page
getCacheKeyUpdate(owner, repo, page, key) ==
    << [index |-> [_index |-> CACHE_INDEX, _id |-> CacheKeyId(owner, repo, page)]],
       [owner |-> owner, repo |-> repo, page |-> page, key |-> key] >>

\* what former runs left in the cache: nothing, a key for every page that is
\* stale, stale but for the first page, or the current key for every page
KeyChoices == {"none", "stale", "firstCurrent", "current"}
InitialKey(c, page) ==
    IF c = "current" \/ (c = "firstCurrent" /\ page = 1)
    THEN CurrentEtag ELSE StaleEtag

InitEtag ==
    /\ config \in Configs("conditional")
    /\ src \in Sources(Len(config.repos) + Len(config.privateRepos))
    /\ now = 1
    /\ lazyClient = 0
    /\ es = << >>
    /\ \E c \in KeyChoices :
          cache = IF c = "none" THEN << >>
                  ELSE [id \in UNION { { CacheKeyId(OwnerOf(t), RepoOf(t), k) :
                                         k \in 1..Len(src[t]) } : t \in Tasks } |->
                        LET t == CHOOSE t \in Tasks : \E k \in 1..Len(src[t]) :
                                    CacheKeyId(OwnerOf(t), RepoOf(t), k) = id
                        IN [owner |-> OwnerOf(t), repo |-> RepoOf(t), page |-> id[Len(id)],
                            key |-> InitialKey(c, id[Len(id)])]]
    /\ task = [t \in 1..Len(Repositories) |->
                 [NewTask EXCEPT !.cacheAtStart = CacheOf(t)]]
    /\ exitCode = null
    /\ sweep = NoSweep
    /\ probe = << >>

\* the If-None-Match header of the request for page `page`: cache[page]
IfNoneMatch(s) == IF s.page \in DOMAIN s.keys THEN s.keys[s.page] ELSE null

\* the head of the while loop: listForRepo({ page, headers }) is sent
EtagRequestPage(s) ==
    [s EXCEPT !.pc = "listForRepo",
              !.requests = Append(@, [page |-> s.page, ifNoneMatch |-> IfNoneMatch(s)])]

\* what the source answers with status 200 for page `page`; past the last
\* page the list is empty and there is no link header
EtagResponse(t, page) ==
    IF page <= Len(src[t])
    THEN [data |-> RawPage(t, page), link |-> LinkHeader(page, Len(src[t])),
          etag |-> CurrentEtag]
    ELSE [data |-> <<>>, link |-> <<>>, etag |-> CurrentEtag]

\* processGitHubIssues has returned: hasNext = link?.includes('rel="next"'),
\* page++; without a next page handleRepository returns
EtagAfterProcess(s) ==
    LET s1 == [s EXCEPT !.shouldCheckNextPage = HasNextRel(s.response.link),
                        !.page = @ + 1,
                        !.response = NoResponse,
                        !.pending = {}]
    IN IF s1.shouldCheckNextPage
       THEN EtagRequestPage(s1)
       ELSE [s1 EXCEPT !.pc = "fulfilled"]

\* every timeline is in: the bulk body is the converted records and the
\* cache key of the page
EtagWriteIssues(s, owner, repo, indexName, dateNow) ==
    LET enriched == s.response.data
        issues == [i \in 1..Len(enriched) |-> convertIssue(owner, repo, enriched[i], dateNow)]
        bulkIssues == getIssueBulkUpdates(indexName, issues)
        updateKey == getCacheKeyUpdate(owner, repo, s.page, s.response.etag)
        throwing == { i \in 1..Len(enriched) : convertIssueThrows(enriched[i]) }
    IN IF throwing # {}
       THEN [s EXCEPT !.pc = "rejected", !.response = NoResponse,
                      !.thrown = @ \cup { enriched[i] : i \in throwing }]
       ELSE [s EXCEPT !.pc = "bulk",
                 !.body = bulkIssues \o updateKey,
                 !.bulkCalls = Append(@, [page |-> s.page, items |-> Len(bulkIssues) \div 2])]

\* processGitHubIssues up to its first await; if (!response.data.length)
\* return
EtagProcessGitHubIssues(s, owner, repo, indexName, dateNow) ==
    LET data == s.response.data
        open == { i \in 1..Len(data) : NeedsTimeline(data[i]) }
        calls == [i \in 1..Len(data) |-> [page |-> s.page, issue_number |-> data[i].number]]
        s1 == [s EXCEPT !.response.data =
                  [i \in 1..Len(data) |-> IF i \in open THEN data[i]
                                          ELSE WithTimeline(data[i], <<>>)]]
    IN IF Len(data) = 0
       THEN EtagAfterProcess(s)
       ELSE IF open # {}
            THEN [s1 EXCEPT !.pc = "timeline",
                            !.pending = open,
                            !.timelineCalls = @ \o SelectSeq(calls,
                                LAMBDA c : \E i \in open : data[i].number = c.issue_number)]
            ELSE EtagWriteIssues(s1, owner, repo, indexName, dateNow)


\* loadCacheForRepo: the search answers, the hits are reduced to
\* { [page]: key }; handleRepository sends the first request
EtagLoadCacheReturn(t) ==
    /\ task[t].pc = "loadCache"
    /\ LET hits == CacheOf(t)
           pages == { hits[id].page : id \in DOMAIN hits }
           hitOf(p) == CHOOSE id \in DOMAIN hits : hits[id].page = p
       IN task' = [task EXCEPT ![t] =
                     EtagRequestPage([@ EXCEPT
                        !.keys = [p \in pages |-> hits[hitOf(p)].key],
                        !.page = 1,
                        !.shouldCheckNextPage = TRUE])]
    /\ UNCHANGED << config, src, now, lazyClient, es, cache, exitCode, sweep, probe >>

\* loadCacheForRepo: the search throws; nothing catches it, the promise of
\* handleRepository is rejected
EtagLoadCacheThrow(t) ==
    /\ task[t].pc = "loadCache"
    /\ task' = [task EXCEPT ![t].pc = "rejected"]
    /\ UNCHANGED << config, src, now, lazyClient, es, cache, exitCode, sweep, probe >>

\* the source has the page unchanged: the ETag sent is the current one
NotModified(t) ==
    /\ task[t].page <= Len(src[t])
    /\ IfNoneMatch(task[t]) = CurrentEtag

\* octokit.issues.listForRepo answers a page with status 200
EtagListForRepoReturn(t) ==
    /\ task[t].pc = "listForRepo"
    /\ ~ NotModified(t)
    /\ LET s == [task[t] EXCEPT !.response = EtagResponse(t, task[t].page),
                                !.fetched = @ + 1]
       IN task' = [task EXCEPT ![t] =
                      EtagProcessGitHubIssues(s, OwnerOf(t), RepoOf(t), IndexOf(t), now)]
    /\ UNCHANGED << config, src, now, lazyClient, es, cache, exitCode, sweep, probe >>

\* mutant: the catch has no case for status 304, the error is thrown again
EtagListForRepoNotModified_Thrown(t) ==
    /\ task[t].pc = "listForRepo"
    /\ NotModified(t)
    /\ task' = [task EXCEPT ![t] =
                   [@ EXCEPT !.fetched = @ + 1,
                             !.notModified = @ \cup {task[t].page},
                             !.pc = "rejected"]]
    /\ UNCHANGED << config, src, now, lazyClient, es, cache, exitCode, sweep, probe >>

\* octokit.issues.listForRepo throws the HttpError of status 304: page++,
\* continue
EtagListForRepoNotModified(t) ==
    /\ task[t].pc = "listForRepo"
    /\ NotModified(t)
    /\ task' = [task EXCEPT ![t] =
                   EtagRequestPage([@ EXCEPT !.fetched = @ + 1,
                                             !.notModified = @ \cup {task[t].page},
                                             !.page = @ + 1])]
    /\ UNCHANGED << config, src, now, lazyClient, es, cache, exitCode, sweep, probe >>

\* mutant: the catch takes every error for "not modified": page++, continue
EtagListForRepoThrow_Skip(t) ==
    /\ task[t].pc = "listForRepo"
    /\ task' = [task EXCEPT ![t] = EtagRequestPage([@ EXCEPT !.page = @ + 1])]
    /\ UNCHANGED << config, src, now, lazyClient, es, cache, exitCode, sweep, probe >>

\* octokit.issues.listForRepo fails for good with another error: logged and
\* thrown again
EtagListForRepoThrow(t) ==
    /\ task[t].pc = "listForRepo"
    /\ task' = [task EXCEPT ![t].pc = "rejected"]
    /\ UNCHANGED << config, src, now, lazyClient, es, cache, exitCode, sweep, probe >>

\* one timeline request of the page is settled
EtagSettleTimeline(t, i, timeline, failed) ==
    LET data == task[t].response.data
        s == [task[t] EXCEPT !.response.data[i] = WithTimeline(data[i], timeline),
                             !.pending = @ \ {i},
                             !.warnings = IF failed
                                          THEN @ \cup {[page |-> task[t].page,
                                                        issue_number |-> data[i].number]}
                                          ELSE @]
    IN task' = [task EXCEPT ![t] =
                   IF s.pending = {}
                   THEN EtagWriteIssues(s, OwnerOf(t), RepoOf(t), IndexOf(t), now)
                   ELSE s]

EtagTimelineReturn(t) ==
    /\ task[t].pc = "timeline"
    /\ \E i \in task[t].pending : \E tl \in TimelineResponses :
          EtagSettleTimeline(t, i, tl, FALSE)
    /\ UNCHANGED << config, src, now, lazyClient, es, cache, exitCode, sweep, probe >>

EtagTimelineThrow(t) ==
    /\ task[t].pc = "timeline"
    /\ \E i \in task[t].pending : EtagSettleTimeline(t, i, <<>>, TRUE)
    /\ UNCHANGED << config, src, now, lazyClient, es, cache, exitCode, sweep, probe >>

\* bulk({ body }) of a page answers; `failed` are the items the sink
\* rejected, of the documents and of the cache key (the last item); they are
\* logged (esResult.body.errors) and the loop goes on
EtagBulkReturn(t) ==
    /\ task[t].pc = "bulk"
    /\ LET body == task[t].body
           m == Len(body) \div 2
           key == body[Len(body)]
           id == body[Len(body) - 1].index._id
       IN \E failed \in SUBSET (1..m) :
             /\ es' = ApplyBulk(es, SubSeq(body, 1, Len(body) - 2), failed, 1)
             /\ cache' = IF m \in failed THEN cache
                         ELSE [x \in DOMAIN cache \cup {id} |->
                                 IF x = id THEN key ELSE cache[x]]
             /\ task' = [task EXCEPT ![t] =
                           EtagAfterProcess([@ EXCEPT
                              !.body = <<>>,
                              !.written = Append(@, task[t].page),
                              !.errors = IF failed # {}
                                         THEN Append(@, [page |-> task[t].page,
                                                         items |-> failed])
                                         ELSE @])]
    /\ lazyClient' = getLazyClient(lazyClient)
    /\ UNCHANGED << config, src, now, exitCode, sweep, probe >>

\* bulk({ body }) of a page throws: logged and thrown again
EtagBulkThrow(t) ==
    /\ task[t].pc = "bulk"
    /\ task' = [task EXCEPT ![t].pc = "rejected", ![t].body = <<>>,
                            ![t].response = NoResponse]
    /\ UNCHANGED << config, src, now, lazyClient, es, cache, exitCode, sweep, probe >>

NextEtag ==
    \/ Main
    \/ \E t \in Tasks : EtagLoadCacheReturn(t)
    \/ \E t \in Tasks : EtagLoadCacheThrow(t)
    \/ \E t \in Tasks : EtagListForRepoReturn(t)
    \/ \E t \in Tasks : EtagListForRepoNotModified(t)
    \/ \E t \in Tasks : EtagListForRepoThrow(t)
    \/ \E t \in Tasks : EtagTimelineReturn(t)
    \/ \E t \in Tasks : EtagTimelineThrow(t)
    \/ \E t \in Tasks : EtagBulkReturn(t)
    \/ \E t \in Tasks : EtagBulkThrow(t)
    \/ AllSettled

SpecEtag == InitEtag /\ [][NextEtag]_vars

\* a deployment runs one revision, in the one or in the other watermark mode
InitModes == Init \/ InitEtag

NextModes ==
    \/ config.mode = "timestamp" /\ Next
    \/ config.mode = "conditional" /\ NextEtag

SpecModes == InitModes /\ [][NextModes]_vars


\* ------------------------------------------- cleanupTransferredIssues
\* documents an index holds at most, and sweeps that are run
MaxDocs == 2
MaxSweeps == 2

\* size: 2000, and 'now-60d' in hours
SearchSize == 2000
StaleAge == 1440

\* the statuses octokit.issues.get answers with
ProbeStatuses == {200, 301, 403, 404}
ProbeStatus(number) == IF number \in DOMAIN probe THEN probe[number] ELSE 200

\* mutant: the update sets the flag and leaves the state
MarkTransferred_FlagOnly(doc) == [doc EXCEPT !.is_transferred = TRUE]

\* mutant: the update also stamps the transfer with the document's last
\* update
MarkTransferred_Stamped(doc) ==
    [doc EXCEPT !.state = "transferred", !.is_transferred = TRUE,
                !.transferred_at = doc.updated_at]

\* the partial update { doc: { state: 'transferred', is_transferred: true } }
\* applied by the sink to a stored document
MarkTransferred(doc) ==
    [doc EXCEPT !.state = "transferred", !.is_transferred = TRUE]

\* what former crawls and sweeps left of issue k in the index
DocChoices == {"absent", "openStale", "openFresh", "closedStale", "transferredStale"}
DocFor(owner, repo, k, c, clock) ==
    LET updated == IF c = "openFresh" THEN clock - StaleAge ELSE clock - StaleAge - 1
        state == IF c = "closedStale" THEN "closed" ELSE "open"
        doc == convertIssue(owner, repo,
                            [RawIssue(k, state) EXCEPT !.updated_at = updated], updated)
    IN IF c = "transferredStale" THEN MarkTransferred(doc) ELSE doc

InitCleanup ==
    /\ config \in { c \in Configs("timestamp") : Len(c.repos) + Len(c.privateRepos) = 1 }
    /\ src = [t \in Tasks |-> << <<>> >>]
    /\ now = StaleAge + 1
    /\ lazyClient = 0
    /\ \E f \in [1..MaxDocs -> DocChoices] :
          LET present == { k \in 1..MaxDocs : f[k] # "absent" }
              docs == [k \in present |-> DocFor(OwnerOf(1), RepoOf(1), k, f[k], now)]
          IN /\ es = [key \in { << IndexOf(1), docs[k].id >> : k \in present } |->
                        docs[CHOOSE k \in present : docs[k].id = key[2]]]
             /\ probe \in [present -> ProbeStatuses]
    /\ cache = << >>
    /\ task = [t \in Tasks |-> NewTask]
    /\ exitCode = null
    /\ sweep = NoSweep

\* the ids in ascending order
RECURSIVE SortedIds(_)
SortedIds(S) ==
    IF S = {} THEN <<>>
    ELSE LET m == CHOOSE x \in S : \A y \in S : x <= y
         IN <<m>> \o SortedIds(S \ {m})

\* mutant: the search has no term on the state
IsCandidate_AnyState(doc, clock) == doc.updated_at.time < clock - StaleAge

\* must: term state open; filter: range updated_at.time lt now-60d
IsCandidate(doc, clock) ==
    /\ doc.state = "open"
    /\ doc.updated_at.time < clock - StaleAge

\* the hits of the search in `index`, at most SearchSize of them
SearchHits(index, clock) ==
    LET ids == SortedIds({ key[2] : key \in { k \in DOMAIN es :
                              k[1] = index /\ IsCandidate(es[k], clock) } })
        all == [i \in 1..Len(ids) |-> [_id |-> ids[i], _source |-> es[<<index, ids[i]>>]]]
    IN SubSeq(all, 1, IF Len(all) < SearchSize THEN Len(all) ELSE SearchSize)

\* for (const doc of hits): the next hit is probed, or the sweep is over
NextHit(s) ==
    IF s.doc < Len(s.hits)
    THEN [s EXCEPT !.pc = "probe", !.doc = @ + 1, !.body = <<>>,
                   !.probes = Append(@, [id |-> s.hits[s.doc + 1]._id, run |-> s.run])]
    ELSE [s EXCEPT !.pc = "done", !.doc = 0, !.hits = <<>>, !.body = <<>>,
                   !.completed = @ \cup {s.run}]

\* the clock of the sink, which 'now-60d' is read from, moves on
CleanupTick ==
    /\ now < StaleAge + 1 + MaxTicks
    /\ now' = now + 1
    /\ UNCHANGED << config, src, lazyClient, es, cache, task, exitCode, sweep, probe >>

\* cleanupTransferredIssues(owner, repo, isPrivate) is called: the search is
\* sent
CleanupStart(t) ==
    /\ sweep.pc \in {"idle", "done", "failed"}
    /\ sweep.run < MaxSweeps
    /\ sweep' = [sweep EXCEPT !.pc = "search", !.target = t, !.run = @ + 1]
    /\ lazyClient' = getLazyClient(lazyClient)
    /\ UNCHANGED << config, src, now, es, cache, task, exitCode, probe >>

\* the search answers
CleanupSearchReturn ==
    /\ sweep.pc = "search"
    /\ sweep' = NextHit([sweep EXCEPT !.hits = SearchHits(IndexOf(sweep.target), now),
                                      !.doc = 0])
    /\ UNCHANGED << config, src, now, lazyClient, es, cache, task, exitCode, probe >>

\* the search throws: cleanupTransferredIssues is rejected
CleanupSearchThrow ==
    /\ sweep.pc = "search"
    /\ sweep' = [sweep EXCEPT !.pc = "failed"]
    /\ UNCHANGED << config, src, now, lazyClient, es, cache, task, exitCode, probe >>

\* octokit.issues.get answers: the issue still exists
CleanupProbeReturn ==
    /\ sweep.pc = "probe"
    /\ ProbeStatus(sweep.hits[sweep.doc]._source.number) = 200
    /\ sweep' = NextHit(sweep)
    /\ UNCHANGED << config, src, now, lazyClient, es, cache, task, exitCode, probe >>

\* octokit.issues.get throws with status 404: stillExists = false, the
\* update of the document is sent
CleanupProbeNotFound ==
    /\ sweep.pc = "probe"
    /\ ProbeStatus(sweep.hits[sweep.doc]._source.number) = 404
    /\ sweep' = [sweep EXCEPT
          !.pc = "update",
          !.body = [index |-> IndexOf(sweep.target),
                    id |-> sweep.hits[sweep.doc]._id,
                    doc |-> [state |-> "transferred", is_transferred |-> TRUE]],
          !.notFound = @ \cup {[id |-> sweep.hits[sweep.doc]._id, run |-> sweep.run]},
          !.updates = Append(@, [run |-> sweep.run,
                                 index |-> IndexOf(sweep.target),
                                 id |-> sweep.hits[sweep.doc]._id,
                                 doc |-> [state |-> "transferred",
                                          is_transferred |-> TRUE]])]
    /\ lazyClient' = getLazyClient(lazyClient)
    /\ UNCHANGED << config, src, now, es, cache, task, exitCode, probe >>

\* mutant: every failed probe counts as "the issue is gone"
CleanupProbeError_Update ==
    /\ sweep.pc = "probe"
    /\ ProbeStatus(sweep.hits[sweep.doc]._source.number) \notin {200, 404}
    /\ sweep' = [sweep EXCEPT
          !.pc = "update",
          !.body = [index |-> IndexOf(sweep.target),
                    id |-> sweep.hits[sweep.doc]._id,
                    doc |-> [state |-> "transferred", is_transferred |-> TRUE]],
          !.updates = Append(@, [run |-> sweep.run,
                                 index |-> IndexOf(sweep.target),
                                 id |-> sweep.hits[sweep.doc]._id,
                                 doc |-> [state |-> "transferred",
                                          is_transferred |-> TRUE]])]
    /\ lazyClient' = getLazyClient(lazyClient)
    /\ UNCHANGED << config, src, now, es, cache, task, exitCode, probe >>

\* octokit.issues.get throws with another status: logged, the document is
\* left alone
CleanupProbeError ==
    /\ sweep.pc = "probe"
    /\ ProbeStatus(sweep.hits[sweep.doc]._source.number) \notin {200, 404}
    /\ sweep' = NextHit(sweep)
    /\ UNCHANGED << config, src, now, lazyClient, es, cache, task, exitCode, probe >>

\* the update answers: the sink has merged the partial document
CleanupUpdateReturn ==
    /\ sweep.pc = "update"
    /\ LET key == << sweep.body.index, sweep.body.id >>
       IN es' = [es EXCEPT ![key] = MarkTransferred(@)]
    /\ sweep' = NextHit([sweep EXCEPT
          !.transitions = @ \cup {[id |-> sweep.body.id, run |-> sweep.run]}])
    /\ UNCHANGED << config, src, now, lazyClient, cache, task, exitCode, probe >>

\* the update throws: cleanupTransferredIssues is rejected
CleanupUpdateThrow ==
    /\ sweep.pc = "update"
    /\ sweep' = [sweep EXCEPT !.pc = "failed", !.doc = 0, !.hits = <<>>, !.body = <<>>,
                              !.updateErrors = @ \cup {[id |-> sweep.body.id,
                                                        run |-> sweep.run]}]
    /\ UNCHANGED << config, src, now, lazyClient, es, cache, task, exitCode, probe >>

NextCleanup ==
    \/ \E t \in Tasks : CleanupStart(t)
    \/ CleanupSearchReturn
    \/ CleanupSearchThrow
    \/ CleanupProbeReturn
    \/ CleanupProbeNotFound
    \/ CleanupProbeError
    \/ CleanupUpdateReturn
    \/ CleanupUpdateThrow
    \/ CleanupTick

SpecCleanup == InitCleanup /\ [][NextCleanup]_vars

\* ---------------------------------------------------------------------
\* cleanupTransferredIssues of the revision that deletes (part_002): the
\* client is a constant of the module, 301 is the status that tells the
\* issue was moved, and the document is deleted
\* ---------------------------------------------------------------------

\* cleanupTransferredIssues(owner, repo, isPrivate) is called: client.search
\* is sent
DeletingCleanupStart(t) ==
    /\ sweep.pc \in {"idle", "done", "failed"}
    /\ sweep.run < MaxSweeps
    /\ sweep' = [sweep EXCEPT !.pc = "search", !.target = t, !.run = @ + 1]
    /\ UNCHANGED << config, src, now, lazyClient, es, cache, task, exitCode, probe >>

\* octokit.issues.get throws with status 301: stillExists = false, the
\* delete of the document is sent
DeletingCleanupProbeMoved ==
    /\ sweep.pc = "probe"
    /\ ProbeStatus(sweep.hits[sweep.doc]._source.number) = 301
    /\ sweep' = [sweep EXCEPT
          !.pc = "delete",
          !.body = [index |-> IndexOf(sweep.target),
                    id |-> sweep.hits[sweep.doc]._id]]
    /\ UNCHANGED << config, src, now, lazyClient, es, cache, task, exitCode, probe >>

\* octokit.issues.get throws with another status: logged
DeletingCleanupProbeError ==
    /\ sweep.pc = "probe"
    /\ ProbeStatus(sweep.hits[sweep.doc]._source.number) \notin {200, 301}
    /\ sweep' = NextHit(sweep)
    /\ UNCHANGED << config, src, now, lazyClient, es, cache, task, exitCode, probe >>

\* client.delete answers: the document is gone from the index
DeletingCleanupDeleteReturn ==
    /\ sweep.pc = "delete"
    /\ LET key == << sweep.body.index, sweep.body.id >>
       IN es' = [k \in DOMAIN es \ {key} |-> es[k]]
    /\ sweep' = NextHit(sweep)
    /\ UNCHANGED << config, src, now, lazyClient, cache, task, exitCode, probe >>

\* client.delete throws: cleanupTransferredIssues is rejected
DeletingCleanupDeleteThrow ==
    /\ sweep.pc = "delete"
    /\ sweep' = [sweep EXCEPT !.pc = "failed", !.doc = 0, !.hits = <<>>, !.body = <<>>]
    /\ UNCHANGED << config, src, now, lazyClient, es, cache, task, exitCode, probe >>

NextDeletingCleanup ==
    \/ \E t \in Tasks : DeletingCleanupStart(t)
    \/ CleanupSearchReturn
    \/ CleanupSearchThrow
    \/ CleanupProbeReturn
    \/ DeletingCleanupProbeMoved
    \/ DeletingCleanupProbeError
    \/ DeletingCleanupDeleteReturn
    \/ DeletingCleanupDeleteThrow
    \/ CleanupTick

SpecDeletingCleanup == InitCleanup /\ [][NextDeletingCleanup]_vars

\* ---------------------------------------------------------------------
\* the crawler and cleanupTransferredIssues on the same index: the module
\* exports both and loading it starts main(), so the sweep called for the
\* repository runs along with the crawl; sixty days may go by before the
\* sweep, which is called once
\* ---------------------------------------------------------------------

\* one public repository of one page; what octokit.issues.get answers for each of
\* its issues is fixed from the start
InitLifecycle ==
    /\ config \in { c \in Configs("timestamp") : Len(c.repos) = 1 /\ c.privateRepos = <<>> }
    /\ src \in { <<ps>> : ps \in PageSeqs(1, MaxRecs) }
    /\ now = 1
    /\ lazyClient = 0
    /\ es = << >>
    /\ cache = << >>
    /\ task = [t \in 1..Len(Repositories) |-> NewTask]
    /\ exitCode = null
    /\ sweep = NoSweep
    /\ probe \in [1..MaxRecs -> {200, 403, 404}]

\* sixty days go by, before the sweep is called
StaleLater ==
    /\ now <= 1 + MaxTicks
    /\ sweep.pc = "idle"
    /\ now' = now + StaleAge
    /\ UNCHANGED << config, src, lazyClient, es, cache, task, exitCode, sweep, probe >>

NextLifecycle ==
    \/ Next
    \/ StaleLater
    \/ \E t \in Tasks : sweep.pc = "idle" /\ CleanupStart(t)
    \/ CleanupSearchReturn
    \/ CleanupSearchThrow
    \/ CleanupProbeReturn
    \/ CleanupProbeNotFound
    \/ CleanupProbeError
    \/ CleanupUpdateReturn
    \/ CleanupUpdateThrow

SpecLifecycle == InitLifecycle /\ [][NextLifecycle]_vars

\* ---------------------------------------------------------------------
\* the crawl of two distinct repositories whose owners and names hold
\* hyphens, as those of the source may
\* ---------------------------------------------------------------------
OwnerInputs == { <<"a">>, <<"a", "-", "b">> }
RepoInputs == { <<"c">>, <<"b", "-", "c">> }
RepositoryInputs == { << o, r >> : o \in OwnerInputs, r \in RepoInputs }

\* REPOSITORIES and PRIVATE_REPOS name two repositories, not the same one
NameConfigs ==
    { [repos |-> SubSeq(<< r1, r2 >>, 1, k),
       privateRepos |-> SubSeq(<< r1, r2 >>, k + 1, 2),
       mode |-> "timestamp"] :
         r1 \in RepositoryInputs, r2 \in RepositoryInputs, k \in 0..2 }

InitNames ==
    /\ config \in { c \in NameConfigs :
                       (c.repos \o c.privateRepos)[1] # (c.repos \o c.privateRepos)[2] }
    /\ src \in Sources(2)
    /\ now = 1
    /\ lazyClient = 0
    /\ es = << >>
    /\ cache = << >>
    /\ task = [t \in 1..2 |-> NewTask]
    /\ exitCode = null
    /\ sweep = NoSweep
    /\ probe = << >>

SpecNames == InitNames /\ [][Next]_vars

\* ---------------------------------------------------------------------
\* the crawl and one sweep on an index that a crawl of sixty days ago has
\* filled: every record of the source has its document, written when the
\* record was open
\* ---------------------------------------------------------------------
FormerDoc(raw) ==
    convertIssue(OwnerOf(1), RepoOf(1), WithTimeline(RawIssue(raw.number, "open"), <<>>), 1)

InitInterleave ==
    /\ config \in { c \in Configs("timestamp") : Len(c.repos) = 1 /\ c.privateRepos = <<>> }
    /\ src \in { <<ps>> : ps \in PageSeqs(1, MaxRecs) }
    /\ now = StaleAge + 1
    /\ lazyClient = 0
    /\ es = [key \in { << IndexOf(1), RawPage(1, 1)[i].id >> : i \in 1..Len(src[1][1]) } |->
               FormerDoc(RawPage(1, 1)[CHOOSE i \in 1..Len(src[1][1]) :
                                          RawPage(1, 1)[i].id = key[2]])]
    /\ cache = << >>
    /\ task = [t \in 1..Len(Repositories) |-> NewTask]
    /\ exitCode = null
    /\ sweep = NoSweep
    /\ probe \in [1..MaxRecs -> {200, 403, 404}]

NextInterleave ==
    \/ Next
    \/ \E t \in Tasks : sweep.pc = "idle" /\ CleanupStart(t)
    \/ CleanupSearchReturn
    \/ CleanupSearchThrow
    \/ CleanupProbeReturn
    \/ CleanupProbeNotFound
    \/ CleanupProbeError
    \/ CleanupUpdateReturn
    \/ CleanupUpdateThrow

SpecInterleave == InitInterleave /\ [][NextInterleave]_vars


\* ------------------------------------------------------- claims: vocabulary
\* the pages of task t's repository that hold records, in order
NonEmptyPages(t) ==
    SelectSeq([k \in 1..Len(src[t]) |-> k], LAMBDA k : src[t][k] # <<>>)

\* the timestamp the cache holds for task t's repository (null: none)
WatermarkOf(t) ==
    LET id == CacheId(OwnerOf(t), RepoOf(t))
    IN IF id \in DOMAIN cache THEN cache[id].timestamp ELSE null

\* the cache holds the timestamp task t took in this run
WatermarkWritten(t) ==
    /\ task[t].currentTimestamp # null
    /\ WatermarkOf(t) = task[t].currentTimestamp

\* the positions of page k whose index action the sink rejected
RejectedItems(t, k) ==
    UNION { task[t].errors[j].items :
            j \in { j \in 1..Len(task[t].errors) : task[t].errors[j].page = k } }

\* every document of page k that the sink did not reject is in the index
PageStored(t, k) ==
    \A i \in 1..Len(src[t][k]) :
        i \notin RejectedItems(t, k) =>
            << IndexOf(t), RawPage(t, k)[i].id >> \in DOMAIN es

\* a request of task t for a page was sent, is not in flight and was never
\* answered: it has failed for good
RequestFailed(t) ==
    Len(task[t].requests) >
        task[t].fetched + (IF task[t].pc = "listForRepo" THEN 1 ELSE 0)

\* the page of the last request task t has sent
LastRequested(t) == task[t].requests[Len(task[t].requests)].page

\* the cache documents of task t's repository that are not as they were when
\* the run began
CacheChanged(t) ==
    { id \in DOMAIN CacheOf(t) :
        \/ id \notin DOMAIN task[t].cacheAtStart
        \/ CacheOf(t)[id] # task[t].cacheAtStart[id] }

\* C1: a task writes the timestamp cache only after it has fetched every page
\* of its repository and the bulk write of every page that holds records has
\* returned, the documents the sink accepted being stored; no bulk write of
\* the task is in flight when the watermark write is sent or has landed. In
\* the conditional-fetch revision the cache key of a page is replaced only by
\* the returned bulk write that carried the documents of that page.
C1_WatermarkAfterCommit ==
    \A t \in Tasks :
        /\ (task[t].timestampWrites > 0 \/ WatermarkWritten(t)) =>
              /\ task[t].fetched = Len(src[t])
              /\ task[t].written = NonEmptyPages(t)
              /\ task[t].pc # "bulk"
              /\ \A k \in 1..Len(src[t]) : PageStored(t, k)
        /\ config.mode = "conditional" =>
              \A id \in CacheChanged(t) :
                 LET k == CacheOf(t)[id].page
                 IN /\ \E i \in 1..Len(task[t].written) : task[t].written[i] = k
                    /\ task[t].pc = "bulk" => task[t].page # k
                    /\ PageStored(t, k)

C1_Witness ==
    \E t \in Tasks :
        /\ WatermarkWritten(t)
        /\ Len(src[t]) >= 2
        /\ Len(NonEmptyPages(t)) >= 2


\* C3: with n pages at the source, only the last without a next link, a task
\* sends its requests one per page in page order, each with the url the
\* previous page's link named, never more than n; a request in flight always
\* has a url; and a task that left the loop (no request failed) sent exactly n.
C3_OneRequestPerPage ==
    \A t \in Tasks :
        LET s == task[t]
            n == Len(src[t])
        IN /\ Len(s.requests) <= n
           /\ \A i \in 1..Len(s.requests) :
                 /\ s.requests[i].page = i
                 /\ s.requests[i].url = IF i = 1 THEN RouteUrl ELSE LinkUrl(i)
           /\ s.pc = "listForRepo" => s.url # Undefined
           /\ s.timestampWrites > 0 => Len(s.requests) = n /\ s.fetched = n

C3_Witness ==
    \E t \in Tasks :
        /\ task[t].timestampWrites > 0
        /\ Len(src[t]) >= 2
        /\ Len(task[t].requests) = Len(src[t])


\* C4: a page whose bulk write reported rejected items is processed all the
\* same: it counts as written, the next page is requested (or, after the last
\* page, the timestamp cache is written), the page is neither requested nor
\* written a second time, every item the sink accepted is stored, and a task
\* that is fulfilled has advanced the watermark.
C4_PartialFailureGoesOn ==
    \A t \in Tasks :
        LET s == task[t]
            n == Len(src[t])
        IN /\ \A j \in 1..Len(s.errors) :
                 LET k == s.errors[j].page
                 IN /\ \E i \in 1..Len(s.written) : s.written[i] = k
                    /\ k < n => Len(s.requests) >= k + 1
                    /\ k = n => s.timestampWrites = 1
                    /\ Cardinality({ i \in 1..Len(s.requests) : s.requests[i].page = k }) = 1
                    /\ Cardinality({ i \in 1..Len(s.bulkCalls) : s.bulkCalls[i].page = k }) = 1
                    /\ PageStored(t, k)
           /\ s.pc = "fulfilled" => WatermarkWritten(t)

\* one item of two rejected on the first of two pages, the task fulfilled
C4_Witness ==
    \E t \in Tasks :
        /\ task[t].pc = "fulfilled"
        /\ WatermarkWritten(t)
        /\ Len(src[t]) >= 2
        /\ \E j \in 1..Len(task[t].errors) :
              LET k == task[t].errors[j].page
              IN /\ k < Len(src[t])
                 /\ Cardinality(task[t].errors[j].items) = 1
                 /\ \E i \in 1..Len(src[t][k]) :
                       /\ i \notin task[t].errors[j].items
                       /\ << IndexOf(t), RawPage(t, k)[i].id >> \in DOMAIN es


C8_TimelineOnlyForOpen ==
    \A t \in Tasks :
        LET s == task[t]
            Calls(k, number) ==
                Cardinality({ j \in 1..Len(s.timelineCalls) :
                                s.timelineCalls[j] = [page |-> k, issue_number |-> number] })
        IN /\ \A k \in 1..Len(src[t]) : \A i \in 1..Len(src[t][k]) :
                 Calls(k, RawPage(t, k)[i].number) =
                    IF k <= s.fetched /\ RawPage(t, k)[i].state = "open" THEN 1 ELSE 0
           /\ \A j \in 1..Len(s.timelineCalls) :
                 LET k == s.timelineCalls[j].page
                 IN /\ k \in 1..s.fetched
                    /\ \E i \in 1..Len(src[t][k]) :
                          RawPage(t, k)[i].number = s.timelineCalls[j].issue_number
           /\ s.pc \in {"timeline", "bulk"} =>
                 \A i \in 1..Len(s.response.data) :
                    s.response.data[i].state # "open" =>
                       /\ "timeline" \in DOMAIN s.response.data[i]
                       /\ s.response.data[i].timeline = <<>>

\* a page with an open and a closed record is being written: one timeline
\* request was sent for it, for the open record
C8_Witness ==
    \E t \in Tasks :
        /\ task[t].pc = "bulk"
        /\ Len(task[t].timelineCalls) = 1
        /\ \E i, j \in 1..Len(task[t].response.data) :
              /\ task[t].response.data[i].state = "open"
              /\ task[t].response.data[i].timeline # <<>>
              /\ task[t].response.data[j].state = "closed"
              /\ task[t].response.data[j].timeline = <<>>


\* the timeline request of record i of the page in hand has failed
Warned(t, i) ==
    [page |-> task[t].page, issue_number |-> task[t].response.data[i].number]
        \in task[t].warnings

\* C9: a failed timeline request does not fail the page. Once the enrichment
\* of a page with a failed request is over the bulk write of the page has been
\* sent with every record of the page in it; in that bulk body the record
\* whose request failed is converted from an empty timeline (no transfer),
\* and every other open record from the timeline the source answered.
C9_TimelineFailureDegrades ==
    \A t \in Tasks :
        LET s == task[t]
            data == s.response.data
        IN /\ \A w \in s.warnings :
                 (w.page < s.page \/ s.pc # "timeline") =>
                    \E j \in 1..Len(s.bulkCalls) :
                       s.bulkCalls[j] = [page |-> w.page, items |-> Len(src[t][w.page])]
           /\ s.pc = "bulk" =>
                 /\ Len(s.body) = 2 * Len(src[t][s.page])
                 /\ \A i \in 1..Len(data) :
                       /\ s.body[2 * i - 1] =
                             [index |-> [_index |-> IndexOf(t), _id |-> RawPage(t, s.page)[i].id]]
                       /\ s.body[2 * i] = convertIssue(OwnerOf(t), RepoOf(t), data[i], now)
                       /\ Warned(t, i) =>
                             /\ data[i].timeline = <<>>
                             /\ ~ s.body[2 * i].is_transferred
                             /\ s.body[2 * i].moved_to = NullStr
                       /\ (data[i].state = "open" /\ ~ Warned(t, i)) =>
                             data[i].timeline \in TimelineResponses

\* a page of two open records is being written: the timeline request of one
\* failed, the other record carries the transfer its timeline told
C9_Witness ==
    \E t \in Tasks :
        /\ task[t].pc = "bulk"
        /\ Len(task[t].body) = 4
        /\ \E i, j \in 1..Len(task[t].response.data) :
              /\ Warned(t, i)
              /\ ~ task[t].body[2 * i].is_transferred
              /\ ~ Warned(t, j)
              /\ task[t].body[2 * j].is_transferred
              /\ task[t].body[2 * j].moved_to = "new/repo"


\* C6: the tasks of the fan-out are independent. main() starts the task of
\* every configured repository, public and private; while a task is not
\* settled the process has not exited, and when other tasks are rejected,
\* however many, the task can still take its next step; and the step that
\* rejects one task leaves every other task, the index and the cache as they
\* were.
C6_TasksIndependent ==
    /\ [](\A t \in Tasks :
            /\ (\E u \in Tasks : task[u].pc # "init") => task[t].pc # "init"
            /\ task[t].pc \notin {"init", "fulfilled", "rejected"} =>
                  /\ exitCode = null
                  /\ (\E u \in Tasks \ {t} : task[u].pc = "rejected") =>
                        ENABLED (\/ LoadCacheReturn(t) \/ LoadCacheThrow(t)
                                 \/ ListForRepoReturn(t) \/ ListForRepoThrow(t)
                                 \/ TimelineReturn(t) \/ TimelineThrow(t)
                                 \/ BulkReturn(t) \/ BulkThrow(t)
                                 \/ TimestampBulkReturn(t) \/ TimestampBulkThrow(t)))
    /\ [][\A u \in Tasks :
            (task[u].pc # "rejected" /\ task'[u].pc = "rejected") =>
               /\ \A t \in Tasks \ {u} : task'[t] = task[t]
               /\ es' = es
               /\ cache' = cache
               /\ exitCode' = exitCode]_vars

\* a private repository's task is writing a page after the task of a public
\* repository was rejected
C6_Witness ==
    \E t, u \in Tasks :
        /\ task[u].pc = "rejected"
        /\ ~ IsPrivate(u)
        /\ IsPrivate(t)
        /\ task[t].pc = "bulk"
        /\ exitCode = null

\* C7: the process exits only after every task is settled; its status is 1
\* if and only if at least one task was rejected, and 0 when all were
\* fulfilled.
C7_ExitStatus ==
    exitCode # null =>
        /\ \A t \in Tasks : task[t].pc \in {"fulfilled", "rejected"}
        /\ exitCode = 1 <=> \E t \in Tasks : task[t].pc = "rejected"
        /\ exitCode = 0 <=> \A t \in Tasks : task[t].pc = "fulfilled"

\* the exit with status 1 after one task was fulfilled and another rejected
C7_Witness ==
    /\ exitCode = 1
    /\ \E t, u \in Tasks : task[t].pc = "fulfilled" /\ task[u].pc = "rejected"


\* C2 as it is claimed: after a page request has failed for good the task is
\* rejected, the failed request is its last, and the repository's cache is
\* exactly as it was before the run.
C2_WatermarkUntouched ==
    \A t \in Tasks :
        RequestFailed(t) =>
            /\ task[t].pc = "rejected"
            /\ Len(task[t].requests) = task[t].fetched + 1
            /\ CacheOf(t) = task[t].cacheAtStart

\* C2, amended: after a page request has failed for good the task is
\* rejected, the failed request is its last, no bulk write was sent for the
\* failed page or a later one and no timestamp was written. In the timestamp
\* revision the repository's cache is exactly as before the run; in the
\* conditional-fetch revision the only cache documents that differ are the
\* keys of pages before the failed one whose bulk write had returned.
C2_RequestFailureIsFatal ==
    \A t \in Tasks :
        RequestFailed(t) =>
            /\ task[t].pc = "rejected"
            /\ Len(task[t].requests) = task[t].fetched + 1
            /\ task[t].timestampWrites = 0
            /\ \A i \in 1..Len(task[t].bulkCalls) :
                  task[t].bulkCalls[i].page < LastRequested(t)
            /\ DOMAIN task[t].cacheAtStart \subseteq DOMAIN CacheOf(t)
            /\ config.mode = "timestamp" => CacheOf(t) = task[t].cacheAtStart
            /\ \A id \in CacheChanged(t) :
                  /\ config.mode = "conditional"
                  /\ CacheOf(t)[id].page < LastRequested(t)
                  /\ \E i \in 1..Len(task[t].written) :
                        task[t].written[i] = CacheOf(t)[id].page
                  /\ CacheOf(t)[id].key = CurrentEtag

\* the conditional-fetch revision: the request for the second page failed
\* after the key of the first page was written with the page's documents
C2_Witness ==
    \E t \in Tasks :
        /\ RequestFailed(t)
        /\ task[t].pc = "rejected"
        /\ LastRequested(t) = 2
        /\ CacheChanged(t) # {}


\* the document of the swept index with this id
SweptDoc(id) == es[<< IndexOf(sweep.target), id >>]

\* C10: a stale open document whose probe answered 404 is transitioned: the
\* sweep sends at once the update { state: 'transferred', is_transferred:
\* true } for it, and unless that update throws the document is stored with
\* state transferred and the flag set; it stays so, and the search of no
\* later sweep returns it.
C10_NotFoundIsTransferred ==
    /\ \A nf \in sweep.notFound :
          \/ /\ sweep.pc = "update"
             /\ sweep.run = nf.run
             /\ sweep.hits[sweep.doc]._id = nf.id
             /\ sweep.body = [index |-> IndexOf(sweep.target), id |-> nf.id,
                              doc |-> [state |-> "transferred", is_transferred |-> TRUE]]
          \/ nf \in sweep.updateErrors
          \/ nf \in sweep.transitions
    /\ \A tr \in sweep.transitions :
          /\ tr \in sweep.notFound
          /\ SweptDoc(tr.id).state = "transferred"
          /\ SweptDoc(tr.id).is_transferred
          /\ sweep.run > tr.run =>
                \A i \in 1..Len(sweep.hits) : sweep.hits[i]._id # tr.id

\* the second sweep probes a candidate after the first sweep has transitioned
\* a document whose probe answered 404
C10_Witness ==
    /\ sweep.pc = "probe"
    /\ sweep.run = 2
    /\ \E tr \in sweep.transitions :
          /\ tr.run = 1
          /\ ProbeStatus(SweptDoc(tr.id).number) = 404
          /\ SweptDoc(tr.id).state = "transferred"

\* the probe logged at position i has been answered
ProbeAnswered(i) == ~(sweep.pc = "probe" /\ i = Len(sweep.probes))

\* the updates a sweep has sent for one document
UpdatesFor(id, run) ==
    { j \in 1..Len(sweep.updates) :
         sweep.updates[j].id = id /\ sweep.updates[j].run = run }

\* C11: a stale open document whose probe fails with status 301 is marked:
\* once the probe is answered the sweep has sent exactly one update for the
\* document, { state: 'transferred', is_transferred: true }, addressed to
\* its id in the index of the repository.
C11_MovedIsTransferred ==
    \A i \in 1..Len(sweep.probes) :
       LET p == sweep.probes[i]
       IN (ProbeAnswered(i) /\ ProbeStatus(SweptDoc(p.id).number) = 301) =>
             /\ Cardinality(UpdatesFor(p.id, p.run)) = 1
             /\ \A j \in UpdatesFor(p.id, p.run) :
                   sweep.updates[j] =
                      [run |-> p.run, index |-> IndexOf(sweep.target), id |-> p.id,
                       doc |-> [state |-> "transferred", is_transferred |-> TRUE]]

\* the status of the probe that is awaited
AwaitedStatus == ProbeStatus(sweep.hits[sweep.doc]._source.number)

\* the two statuses that tell a document has left its place
RelocationSignals == {301, 404}

\* C12: a candidate whose probe succeeds, or fails with a status other than
\* 404 and 301, is left alone: the sweep probes it once, sends no update
\* for it, and the step of the sweep that takes the answer changes nothing in the index
\* and either sends the probe of the next hit or ends the sweep when the
\* hit was the last one.
C12_OtherOutcomeLeavesDocument ==
    /\ [](\A i \in 1..Len(sweep.probes) :
            LET p == sweep.probes[i]
            IN ProbeStatus(SweptDoc(p.id).number) \notin RelocationSignals =>
                  /\ UpdatesFor(p.id, p.run) = {}
                  /\ \A j \in 1..Len(sweep.probes) :
                        (sweep.probes[j].id = p.id /\ sweep.probes[j].run = p.run)
                           => j = i)
    /\ [][(sweep.pc = "probe" /\ AwaitedStatus \notin RelocationSignals
                                /\ sweep' # sweep) =>
             /\ es' = es
             /\ sweep'.updates = sweep.updates
             /\ IF sweep.doc < Len(sweep.hits)
                THEN /\ sweep'.pc = "probe"
                     /\ sweep'.hits = sweep.hits
                     /\ sweep'.doc = sweep.doc + 1
                     /\ sweep'.probes =
                           Append(sweep.probes,
                                  [id |-> sweep.hits[sweep.doc + 1]._id,
                                   run |-> sweep.run])
                ELSE /\ sweep'.pc = "done"
                     /\ sweep'.probes = sweep.probes]_vars

\* a probe answered 403 and a probe answered 200 are behind, the sweep is
\* over and both documents are still open
C12_Witness ==
    /\ sweep.pc = "done"
    /\ sweep.run = 1
    /\ Len(sweep.probes) = 2
    /\ ProbeStatus(SweptDoc(sweep.probes[1].id).number) = 403
    /\ ProbeStatus(SweptDoc(sweep.probes[2].id).number) = 200
    /\ \A i \in 1..2 : SweptDoc(sweep.probes[i].id).state = "open"

\* C13: nothing deletes a document: whatever step is taken, by a crawl or
\* by a sweep, every document of the index before the step is a document
\* of the index after it.
C13_NeverDeleted == [][\A key \in DOMAIN es : key \in DOMAIN es']_vars

\* the sweep numbered run has probed the document
ProbedIn(id, run) ==
    \E i \in 1..Len(sweep.probes) :
       sweep.probes[i].id = id /\ sweep.probes[i].run = run

\* the sweep numbered run follows a sweep that went through all its hits
FollowsCompleted(run) == run > 1 /\ (run - 1) \in sweep.completed

\* C14 (as stated): a sweep that follows a completed sweep, the source
\* unchanged and no crawl in between, sends no update at all.
C14_SecondSweepNoTransitions ==
    \A j \in 1..Len(sweep.updates) : ~FollowsCompleted(sweep.updates[j].run)

\* C14 (amended): a sweep that follows a completed sweep, the source
\* unchanged and no crawl in between, sends no update for a document the
\* earlier sweep had selected, and a transitioned document is selected by no
\* later sweep; the updates it sends are for documents that have become
\* candidates in between.
C14_NoRepeatedTransition ==
    /\ \A j \in 1..Len(sweep.updates) :
          LET u == sweep.updates[j]
          IN FollowsCompleted(u.run) => ~ProbedIn(u.id, u.run - 1)
    /\ \A tr \in sweep.transitions :
          \A i \in 1..Len(sweep.probes) :
             sweep.probes[i].id = tr.id => sweep.probes[i].run <= tr.run

\* two completed sweeps: the first has transitioned a document and left
\* another, the second has probed the other again and sent no update
C14_Witness ==
    /\ sweep.pc = "done"
    /\ sweep.completed = {1, 2}
    /\ \E tr \in sweep.transitions : tr.run = 1
    /\ \E i \in 1..Len(sweep.probes) :
          /\ sweep.probes[i].run = 2
          /\ ProbedIn(sweep.probes[i].id, 1)
    /\ \A j \in 1..Len(sweep.updates) : sweep.updates[j].run = 1

CallsForPage(calls, k) == { j \in 1..Len(calls) : calls[j].page = k }

\* C17: in conditional-fetch mode a page answered 304 is passed over: no
\* timeline is asked and no bulk write is sent for it, the step that takes
\* the answer changes neither the index nor the cache and does not reject
\* the task, the request for the following page is sent, and the paging
\* ends only with a page that was answered 200 without a next link.
C17_NotModifiedIsSkipped ==
    /\ [](\A t \in Tasks : \A k \in task[t].notModified :
            /\ CallsForPage(task[t].bulkCalls, k) = {}
            /\ CallsForPage(task[t].timelineCalls, k) = {}
            /\ \A j \in 1..Len(task[t].written) : task[t].written[j] # k
            /\ Len(task[t].requests) > k
            /\ task[t].requests[k].page = k
            /\ task[t].requests[k + 1].page = k + 1
            /\ task[t].pc = "fulfilled" =>
                  task[t].requests[Len(task[t].requests)].page \notin task[t].notModified)
    /\ [][\A t \in Tasks :
             task'[t].notModified # task[t].notModified =>
                /\ es' = es
                /\ cache' = cache
                /\ task'[t].pc = "listForRepo"
                /\ task'[t].page = task[t].page + 1]_vars

\* the last page of a repository was answered 304, the page after it was
\* asked for and answered empty, and the task is fulfilled
C17_Witness ==
    \E t \in Tasks :
       /\ config.mode = "conditional"
       /\ task[t].pc = "fulfilled"
       /\ Len(src[t]) \in task[t].notModified
       /\ Len(task[t].requests) = Len(src[t]) + 1

\* the pages of task t's repository that hold no record, were answered 200
\* and have been processed
EmptyPagesDone(t) ==
    { k \in 1..Len(src[t]) : /\ Len(src[t][k]) = 0
                             /\ k < task[t].page
                             /\ k \notin task[t].notModified }

\* C18: in conditional-fetch mode a page of no record that was processed
\* has had one bulk write, the one that writes the key of the page, and
\* that write carried no document.
C18_EmptyPageAdvancesKey ==
    config.mode = "conditional" =>
       \A t \in Tasks : \A k \in EmptyPagesDone(t) :
          /\ Cardinality(CallsForPage(task[t].bulkCalls, k)) = 1
          /\ \A j \in CallsForPage(task[t].bulkCalls, k) : task[t].bulkCalls[j].items = 0

\* a document without its fetch timestamp
SansCrawledAt(doc) == [doc EXCEPT !.last_crawled_at = 0]

\* C19: two calls of convertIssue for the same owner, repository and raw
\* record (its timeline included), made at whatever instants of whatever
\* runs, return documents that are equal but for last_crawled_at; and the
\* records the caller holds after the calls are the records it passed.
C19_ConvertDeterministic ==
    \A t \in Tasks :
       /\ \A a, b \in task[t].converted :
             a.raw = b.raw => SansCrawledAt(a.doc) = SansCrawledAt(b.doc)
       /\ (task[t].pc = "bulk" /\ config.mode = "timestamp") =>
             \A i \in 1..Len(task[t].response.data) :
                [raw |-> task[t].response.data[i], doc |-> task[t].body[2 * i]]
                   \in task[t].converted

\* the same record, of a transferred issue, was converted in two runs at two
\* instants
C19_Witness ==
    \E t \in Tasks : \E a, b \in task[t].converted :
       /\ a.raw = b.raw
       /\ a.doc.is_transferred
       /\ a.doc.last_crawled_at # b.doc.last_crawled_at
       /\ task[t].run = 2

\* every record of the page whose bulk write task t awaits is the record
\* the sink last accepted for its id
SamePageCommitted(t) ==
    /\ task[t].pc = "bulk"
    /\ \A i \in 1..Len(task[t].response.data) :
          LET raw == task[t].response.data[i]
          IN /\ raw.id \in DOMAIN task[t].committed
             /\ task[t].committed[raw.id].raw = raw

\* C20: when the bulk write of a page returns whose records are the ones
\* last committed, whatever items the sink accepts, the index holds the same
\* ids as before and every document is as it was but for last_crawled_at;
\* each document of the page is addressed by the id of its record and is
\* either the newly converted one or, its item rejected, the former one.
C20_CommitTwice ==
    [][\A t \in Tasks :
         (SamePageCommitted(t) /\ task'[t].written # task[t].written) =>
            /\ DOMAIN es' = DOMAIN es
            /\ \A key \in DOMAIN es : SansCrawledAt(es'[key]) = SansCrawledAt(es[key])
            /\ \A i \in 1..Len(task[t].response.data) :
                  LET doc == task[t].body[2 * i]
                      act == task[t].body[2 * i - 1].index
                      key == << act._index, act._id >>
                  IN /\ key = << IndexOf(t), task[t].response.data[i].id >>
                     /\ es'[key] \in {doc, es[key]}]_vars

\* a record was committed in two runs, at the instants 1 and 2: the index
\* holds one document, the one of the second commit
C20_Witness ==
    \E t \in Tasks : \E id \in DOMAIN task[t].committed :
       /\ task[t].committed[id].times = 2
       /\ DOMAIN es = { << IndexOf(t), id >> }
       /\ es[<< IndexOf(t), id >>].last_crawled_at = 2
       /\ \E a \in task[t].converted :
             /\ a.raw = task[t].committed[id].raw
             /\ a.doc.last_crawled_at = 1

\* the timeline of a record, empty when the record has none
TimelineOf(raw) == IF "timeline" \in DOMAIN raw THEN raw.timeline ELSE <<>>

\* the positions of the events of type transferred
TransferPositions(tl) == { i \in 1..Len(tl) : tl[i].event = "transferred" }

\* the smallest number of a set of numbers
Least(S) == CHOOSE x \in S : \A y \in S : x <= y

\* C21: the relocation facts of a converted document are those of the
\* first event of type transferred of the record's timeline: is_transferred
\* is true, moved_from and moved_to are the names of its previous and of its
\* new repository (null for one it does not name) and transferred_at is its
\* decomposed date; with no such event, or no timeline, is_transferred is
\* false and the three others are null.
C21_RelocationFacts ==
    \A t \in Tasks : \A c \in task[t].converted :
       LET tl == TimelineOf(c.raw)
           at == TransferPositions(tl)
       IN IF at = {}
          THEN /\ c.doc.is_transferred = FALSE
               /\ c.doc.moved_from = NullStr
               /\ c.doc.moved_to = NullStr
               /\ c.doc.transferred_at = NullObj
          ELSE LET evt == tl[Least(at)]
               IN /\ c.doc.is_transferred = TRUE
                  /\ c.doc.moved_from = evt.previous_repository
                  /\ c.doc.moved_to = evt.repository
                  /\ c.doc.transferred_at = enhanceDate(evt.created_at)

\* a record whose timeline holds two transfers was converted
C21_Witness ==
    \E t \in Tasks : \E c \in task[t].converted :
       /\ TimelineOf(c.raw) = <<TransferredEvt, LaterTransferredEvt>>
       /\ c.doc.moved_from = "old/repo"
       /\ c.doc.moved_to = "new/repo"
       /\ c.doc.transferred_at.time = 0

\* C22: converting a record raises no error whatever collections it has; the
\* labels of the document are the names of the record's labels, the empty
\* list for a record with no label or with no label collection; its
\* assignees are the logins of the record's assignees, the empty list for
\* an empty collection and null for a record with no assignee collection.
C22_LabelsAndAssignees ==
    \A t \in Tasks :
       /\ task[t].thrown = {}
       /\ \A c \in task[t].converted :
             /\ c.doc.labels =
                   IF "labels" \in DOMAIN c.raw
                   THEN [i \in 1..Len(c.raw.labels) |-> c.raw.labels[i].name]
                   ELSE <<>>
             /\ c.doc.assignees =
                   IF "assignees" \in DOMAIN c.raw
                   THEN [i \in 1..Len(c.raw.assignees) |-> c.raw.assignees[i].login]
                   ELSE NullSeq

\* C23: the reaction counters of a document are the counts of the
\* categories of the record's reaction block, total for total_count, upVote
\* for +1, downVote for -1 and the six others under their own names; a
\* record without a reaction block gives reactions null.
C23_ReactionCounters ==
    \A t \in Tasks : \A c \in task[t].converted :
       IF "reactions" \in DOMAIN c.raw
       THEN /\ c.doc.reactions.total = c.raw.reactions["total_count"]
            /\ c.doc.reactions.upVote = c.raw.reactions["+1"]
            /\ c.doc.reactions.downVote = c.raw.reactions["-1"]
            /\ c.doc.reactions.laugh = c.raw.reactions["laugh"]
            /\ c.doc.reactions.hooray = c.raw.reactions["hooray"]
            /\ c.doc.reactions.confused = c.raw.reactions["confused"]
            /\ c.doc.reactions.heart = c.raw.reactions["heart"]
            /\ c.doc.reactions.rocket = c.raw.reactions["rocket"]
            /\ c.doc.reactions.eyes = c.raw.reactions["eyes"]
       ELSE c.doc.reactions = NullObj

\* C30: time_to_fix of a document is the closing instant of the record
\* minus its creation instant when the record has both, and null when it
\* lacks either.
C30_TimeToFix ==
    \A t \in Tasks : \A c \in task[t].converted :
       /\ (c.raw.created_at # null /\ c.raw.closed_at # null) =>
             c.doc.time_to_fix = c.raw.closed_at - c.raw.created_at
       /\ (c.raw.created_at = null \/ c.raw.closed_at = null) =>
             c.doc.time_to_fix = null

\* a record created at 26 and closed at 49 was converted: 23
C30_Witness ==
    \E t \in Tasks : \E c \in task[t].converted :
       /\ c.raw.created_at = 26
       /\ c.raw.closed_at = 49
       /\ c.doc.time_to_fix = 23

\* C24: while timeline requests of a page are pending nothing of the page
\* is converted or written; when the bulk write of the page is sent no
\* request is pending and every record carries the timeline its own request
\* was settled with; a request that settles, in whatever order, touches the
\* timeline of its own record only, so that the bulk body is the conversion
\* of the records in the order of the page.
C24_EnrichmentBeforeWrite ==
    /\ [](\A t \in Tasks :
            LET s == task[t]
                data == s.response.data
            IN /\ s.pc = "timeline" =>
                     /\ s.pending # {}
                     /\ s.body = <<>>
                     /\ CallsForPage(s.bulkCalls, s.page) = {}
                     /\ \A i \in 1..Len(data) :
                           i \in s.pending <=> "timeline" \notin DOMAIN data[i]
               /\ (s.pc = "bulk" /\ config.mode = "timestamp") =>
                     /\ s.pending = {}
                     /\ Len(data) = Len(src[t][s.page])
                     /\ \A i \in 1..Len(data) :
                           /\ "timeline" \in DOMAIN data[i]
                           /\ data[i] = WithTimeline(RawPage(t, s.page)[i], data[i].timeline)
                           /\ s.body[2 * i] =
                                 convertIssue(OwnerOf(t), RepoOf(t), data[i],
                                              s.body[2 * i].last_crawled_at))
    /\ [][\A t \in Tasks :
             (task[t].pc = "timeline" /\ task'[t] # task[t]) =>
                \E i \in task[t].pending :
                   /\ task'[t].pending = task[t].pending \ {i}
                   /\ \A j \in 1..Len(task[t].response.data) :
                         j # i => task'[t].response.data[j] = task[t].response.data[j]]_vars

\* of a page of two open records the request of the second is settled, the
\* one of the first is pending
C24_Witness ==
    \E t \in Tasks :
       /\ task[t].pc = "timeline"
       /\ task[t].pending = {1}
       /\ Len(task[t].response.data) = 2
       /\ task[t].response.data[2].timeline = <<LabeledEvt, TransferredEvt>>

\* the pages of a log of calls are in strictly growing order
PagesGrow(calls) ==
    \A i, j \in 1..Len(calls) : i < j => calls[i].page < calls[j].page

\* C25: the pages of a repository are handled one after the other: a task
\* has at most one page request or one page write in flight, never both and
\* never two; the request for page k+1 is sent in the step in which the
\* processing of page k ends (its bulk write returns, or the page was
\* empty) and carries the next url of page k's response; no page is
\* requested or written twice.
C25_PagesSequential ==
    /\ [](\A t \in Tasks :
            LET s == task[t]
                inFlightRequests == Len(s.requests) - s.fetched
                inFlightWrites == Len(s.bulkCalls) - Len(s.written)
            IN /\ inFlightRequests \in {0, 1}
               /\ inFlightWrites \in {0, 1}
               /\ inFlightRequests + inFlightWrites <= 1
               /\ s.pc = "listForRepo" => inFlightRequests = 1
               /\ s.pc = "bulk" => inFlightWrites = 1 /\ s.bulkCalls[Len(s.bulkCalls)].page = s.page
               /\ PagesGrow(s.requests)
               /\ PagesGrow(s.bulkCalls)
               /\ \A i \in 1..Len(s.requests) :
                     /\ \A k \in 1..(s.requests[i].page - 1) :
                           src[t][k] # <<>> => \E j \in 1..Len(s.written) : s.written[j] = k
                     /\ i > 1 => s.requests[i].url =
                                     NextUrl(Response(t, s.requests[i - 1].url).link))
    /\ [][\A t \in Tasks :
             (Len(task'[t].requests) > Len(task[t].requests) /\ Len(task[t].requests) > 0) =>
                /\ Len(task'[t].requests) = Len(task[t].requests) + 1
                /\ \/ /\ task[t].pc = "bulk"
                      /\ task'[t].written = Append(task[t].written, task[t].page)
                   \/ /\ task[t].pc = "listForRepo"
                      /\ src[t][LastRequested(t)] = <<>>
                /\ task'[t].requests[Len(task'[t].requests)].page = LastRequested(t) + 1]_vars

\* the second page is requested after the bulk write of the first returned
C25_Witness ==
    \E t \in Tasks :
       /\ task[t].pc = "listForRepo"
       /\ Len(task[t].requests) = 2
       /\ task[t].written = << 1 >>

\* the fields the partial update of the sweep names
TransitionFields == {"state", "is_transferred"}

\* C26: the update of the sweep changes one document, the one it addresses,
\* and of that document the state (transferred) and the relocation marker
\* (true) only: every other field keeps its value, no document is added or
\* removed, every other document is as it was; and no other step of the
\* sweep changes the index.
C26_TransitionFrame ==
    [][es' # es =>
         /\ sweep.pc = "update"
         /\ DOMAIN es' = DOMAIN es
         /\ LET key == << sweep.body.index, sweep.body.id >>
            IN /\ key \in DOMAIN es
               /\ \A other \in DOMAIN es \ {key} : es'[other] = es[other]
               /\ DOMAIN es'[key] = DOMAIN es[key]
               /\ \A f \in DOMAIN es[key] \ TransitionFields : es'[key][f] = es[key][f]
               /\ \A f \in TransitionFields : es'[key][f] = sweep.body.doc[f]
               /\ es'[key].state = "transferred"
               /\ es'[key].is_transferred]_vars

\* a sweep has transitioned one of two documents of the index; the other
\* one is still open
C26_Witness ==
    /\ \E tr \in sweep.transitions :
          \E key \in DOMAIN es : key[2] = tr.id /\ es[key].state = "transferred"
                                  /\ es[key].number \in {1, 2}
    /\ \E key \in DOMAIN es : es[key].state = "open"

\* the lifecycle states of a document
LifecycleStates == {"open", "closed", "transferred"}

\* C27: every document of the index has the state open, closed or
\* transferred; every document the crawl converts, and every document of a
\* bulk body it sends, has the state of its raw record, which is never
\* transferred; and a document becomes transferred only in the step in
\* which the update of the sweep returns, for the document it addresses.
C27_LifecycleStates ==
    /\ [](/\ \A key \in DOMAIN es : es[key].state \in LifecycleStates
          /\ \A t \in Tasks :
                /\ \A c \in task[t].converted :
                      c.doc.state = c.raw.state /\ c.doc.state # "transferred"
                /\ task[t].pc = "bulk" =>
                      \A i \in 1..(Len(task[t].body) \div 2) :
                         task[t].body[2 * i].state \in LifecycleStates \ {"transferred"})
    /\ [][\A key \in DOMAIN es' :
             (es'[key].state = "transferred"
                /\ (key \in DOMAIN es => es[key].state # "transferred")) =>
                   /\ sweep.pc = "update"
                   /\ key = << sweep.body.index, sweep.body.id >>
                   /\ \A t \in Tasks : task'[t] = task[t]]_vars

\* the crawl has written a record whose timeline holds a transfer as an open
\* document, and the sweep has made another document transferred
C27_Witness ==
    /\ \E key \in DOMAIN es : es[key].state = "open" /\ es[key].is_transferred
    /\ \E key \in DOMAIN es : es[key].state = "transferred"
                               /\ \E tr \in sweep.transitions : tr.id = key[2]

\* C28: two tasks of a run whose repositories are distinct never address
\* the same place of the sink: their index names differ, their watermark
\* keys differ, and the bulk bodies they have in flight name different
\* indices.
C28_DistinctSinkIdentities ==
    \A t1, t2 \in Tasks :
       (t1 # t2 /\ Repositories[t1] # Repositories[t2]) =>
          /\ IndexOf(t1) # IndexOf(t2)
          /\ CacheId(OwnerOf(t1), RepoOf(t1)) # CacheId(OwnerOf(t2), RepoOf(t2))
          /\ (task[t1].pc \in {"bulk", "timestampBulk"}
                /\ task[t2].pc \in {"bulk", "timestampBulk"}) =>
                   \A i \in 1..(Len(task[t1].body) \div 2) :
                      \A j \in 1..(Len(task[t2].body) \div 2) :
                         << task[t1].body[2 * i - 1].index._index,
                            task[t1].body[2 * i - 1].index._id >> #
                         << task[t2].body[2 * j - 1].index._index,
                            task[t2].body[2 * j - 1].index._id >>

\* C29: the bulk body sent for a page of n records has 2n entries: at the
\* odd places index actions, at the even places documents, the i-th pair
\* being that of the i-th record of the page; the action names the index of
\* the repository and the id of the document that follows it, which is the
\* id of the raw record.
C29_BulkBodyShape ==
    \A t \in Tasks :
       (task[t].pc = "bulk" /\ config.mode = "timestamp") =>
          LET body == task[t].body
              page == RawPage(t, task[t].page)
          IN /\ Len(body) = 2 * Len(page)
             /\ \A i \in 1..Len(page) :
                   /\ DOMAIN body[2 * i - 1] = {"index"}
                   /\ "index" \notin DOMAIN body[2 * i]
                   /\ DOMAIN body[2 * i - 1].index = {"_index", "_id"}
                   /\ body[2 * i - 1].index._index = IndexOf(t)
                   /\ body[2 * i - 1].index._id = body[2 * i].id
                   /\ body[2 * i].id = page[i].id
                   /\ body[2 * i].number = page[i].number
                   /\ body[2 * i].state = page[i].state

\* the body of a page of two records, a closed one and an open one, is sent
C29_Witness ==
    \E t \in Tasks :
       /\ task[t].pc = "bulk"
       /\ Len(task[t].body) = 4
       /\ task[t].body[2].state = "closed"
       /\ task[t].body[4].state = "open"
       /\ task[t].body[1].index._id # task[t].body[3].index._id

\* a call of the sink made by task t, or by the sweep, is awaited
SinkCallOfTask(t) == task[t].pc \in {"loadCache", "bulk", "timestampBulk"}
SinkCallOfSweep == sweep.pc \in {"search", "update"}

\* C31: in one process the sink client is constructed once at most: the
\* instance getLazyClient has handed out is never replaced, whichever task
\* or sweep calls it and in whatever order they are resumed, and every sink
\* call that is awaited was made on that one instance.
C31_ClientConstructedOnce ==
    /\ [](/\ lazyClient \in {0, 1}
          /\ (SinkCallOfSweep \/ \E t \in Tasks : SinkCallOfTask(t)) => lazyClient = 1)
    /\ [][lazyClient # 0 => lazyClient' = lazyClient]_vars

\* a bulk write of a task and the search of the sweep are awaited together
C31_Witness ==
    /\ lazyClient = 1
    /\ sweep.pc = "search"
    /\ \E t \in Tasks : task[t].pc = "bulk" /\ task[t].written = <<>>

\* the items of the bulk write of task t that the sink rejects in this step
RejectedNow(t) ==
    IF Len(task'[t].errors) > Len(task[t].errors)
    THEN task'[t].errors[Len(task'[t].errors)].items ELSE {}

\* C32 as stated: a document whose state is transferred keeps that state
\* in every step of the crawl and of the sweep.
C32_TransferredNeverReopened ==
    [][\A key \in DOMAIN es :
         es[key].state = "transferred" => es'[key].state = "transferred"]_vars

\* C32: the write the sink takes last wins. A transferred document changes
\* only in the step in which a bulk write of the crawl returns with an
\* accepted index action for its id, and that step stores the conversion of
\* the fetched record, state and marker of the record included; every
\* accepted index action does so whatever the stored state.
C32_LastWriteWins ==
    [][/\ \A key \in DOMAIN es :
            (es[key].state = "transferred" /\ es'[key] # es[key]) =>
               \E t \in Tasks :
                  /\ task[t].pc = "bulk"
                  /\ \E i \in 1..(Len(task[t].body) \div 2) :
                        /\ i \notin RejectedNow(t)
                        /\ task[t].body[2 * i - 1].index._index = key[1]
                        /\ task[t].body[2 * i - 1].index._id = key[2]
                        /\ es'[key] = task[t].body[2 * i]
                        /\ es'[key].state = task[t].response.data[i].state
       /\ \A t \in Tasks :
            (task[t].pc = "bulk" /\ Len(task'[t].written) > Len(task[t].written)) =>
               \A i \in 1..(Len(task[t].body) \div 2) :
                  i \notin RejectedNow(t) =>
                     es'[<< task[t].body[2 * i - 1].index._index,
                            task[t].body[2 * i - 1].index._id >>] = task[t].body[2 * i]]_vars

\* the sweep has transitioned a document, and a bulk write of the crawl
\* that returned afterwards has stored it as open again
C32_Witness ==
    \E tr \in sweep.transitions :
       LET doc == es[<< IndexOf(sweep.target), tr.id >>]
       IN /\ doc.state = "open"
          /\ ~doc.is_transferred
          /\ doc.last_crawled_at = now

\* C33: the timestamp a run commits is the instant of the step that sends
\* the run's first page request: a task takes its timestamp in the step in
\* which loadCacheForRepo returns, with no request sent before and the first
\* one sent in that step; no page is fetched before it is taken; the body
\* of the cache write and the watermark of a fulfilled task carry that
\* timestamp, however far the clock has moved since.
C33_WatermarkIsStartInstant ==
    /\ [](\A t \in Tasks :
            LET s == task[t]
            IN /\ (s.fetched > 0 \/ Len(s.requests) > 0) =>
                     (s.currentTimestamp # null /\ s.currentTimestamp <= now)
               /\ s.pc = "timestampBulk" =>
                     /\ s.body[2].timestamp = s.currentTimestamp
                     /\ s.body[2].timestamp <= now
               /\ s.pc = "fulfilled" => WatermarkOf(t) = s.currentTimestamp)
    /\ [][\A t \in Tasks :
             (task'[t].currentTimestamp # task[t].currentTimestamp
                /\ task'[t].currentTimestamp # null) =>
                   /\ task[t].pc = "loadCache"
                   /\ task[t].requests = <<>>
                   /\ Len(task'[t].requests) = 1
                   /\ task[t].fetched = 0
                   /\ task'[t].currentTimestamp = now]_vars

\* a run took the timestamp 1, converted its page at the instant 2 and
\* sends the cache write with the timestamp 1
C33_Witness ==
    \E t \in Tasks :
       /\ task[t].run = 1
       /\ task[t].pc = "timestampBulk"
       /\ task[t].currentTimestamp = 1
       /\ now = 2
       /\ \E c \in task[t].converted : c.doc.last_crawled_at = 2

\* the timestamp the cache held for task t's repository when the run began
StartWatermark(t) ==
    LET id == CacheId(OwnerOf(t), RepoOf(t))
    IN IF id \in DOMAIN task[t].cacheAtStart
       THEN task[t].cacheAtStart[id].timestamp ELSE null

\* C34: what a run commits the next run reads back: a new run begins with
\* the cache the run before has left, the timestamp of the fulfilled
\* task being the one it had taken; unless the cache search failed,
\* loadCacheForRepo returns that timestamp, and every page request of the
\* run carries it as since; with no cache document no request carries a
\* since.
C34_WatermarkRoundTrip ==
    /\ [](\A t \in Tasks :
            LET s == task[t]
            IN /\ (s.currentTimestamp # null /\ s.cacheErrors = 0) =>
                     s.lastFetchTimestamp = StartWatermark(t)
               /\ \A i \in 1..Len(s.requests) :
                     /\ s.requests[i].since = s.lastFetchTimestamp
                     /\ s.cacheAtStart = <<>> => s.requests[i].since = null)
    /\ [][\A t \in Tasks :
             task'[t].run > task[t].run =>
                /\ task'[t].cacheAtStart = CacheOf(t)
                /\ task[t].pc = "fulfilled" =>
                      /\ CacheId(OwnerOf(t), RepoOf(t)) \in DOMAIN task'[t].cacheAtStart
                      /\ task'[t].cacheAtStart[CacheId(OwnerOf(t), RepoOf(t))].timestamp
                            = task[t].currentTimestamp]_vars

\* the first run had found no watermark and has committed the timestamp 2;
\* the second run has sent the requests for its two pages with since = 2
C34_Witness ==
    \E t \in Tasks :
       /\ task[t].run = 2
       /\ task[t].cacheErrors = 0
       /\ StartWatermark(t) = 2
       /\ Len(task[t].requests) = 2
       /\ task[t].requests[1].since = 2
       /\ task[t].requests[2].since = 2

\* C35: for every page answered, the test that lets the loop go on and the
\* extraction of the next url agree: the header holds rel="next" exactly
\* when the regular expression matches, and then the url extracted is the
\* target of the link whose rel is next; so a task that goes on to another
\* request sends it with a defined url, the one the page before named.
C35_ContinueTestAndCursorAgree ==
    \A t \in Tasks :
       LET s == task[t]
       IN /\ (s.pc \in {"timeline", "bulk"} /\ config.mode = "timestamp") =>
                /\ HasNextRel(s.response.link) <=> NextUrl(s.response.link) # Undefined
                /\ s.url = NextUrl(s.response.link)
                /\ HasNextRel(s.response.link) => s.url = LinkUrl(s.page + 1)
          /\ (s.pc = "listForRepo" /\ s.page > 1) =>
                /\ s.url # Undefined
                /\ s.url = LinkUrl(s.page)
                /\ s.requests[Len(s.requests)].url = s.url

\* the first of two pages is being written: its header names the next page
C35_Witness ==
    \E t \in Tasks :
       /\ task[t].pc = "bulk"
       /\ task[t].page = 1
       /\ HasNextRel(task[t].response.link)
       /\ task[t].url = LinkUrl(2)

\* a bulk write of task t was sent and has neither returned nor is awaited:
\* it has thrown
BulkFailed(t) ==
    /\ task[t].pc # "bulk"
    /\ Len(task[t].bulkCalls) > Len(task[t].written)

\* C36: when the bulk write of a page throws, the task is rejected at that
\* page: the page is the last one requested, no timestamp write was sent,
\* the cache of the repository is as it was when the run began; the step
\* in which the write throws changes neither the index nor the cache, and
\* a rejected task takes no further step.
C36_BulkFailureIsFatal ==
    /\ [](\A t \in Tasks :
            BulkFailed(t) =>
               /\ task[t].pc = "rejected"
               /\ Len(task[t].bulkCalls) = Len(task[t].written) + 1
               /\ task[t].bulkCalls[Len(task[t].bulkCalls)].page = LastRequested(t)
               /\ Len(task[t].requests) = task[t].fetched
               /\ task[t].timestampWrites = 0
               /\ CacheOf(t) = task[t].cacheAtStart)
    /\ [][\A t \in Tasks :
             /\ (task[t].pc = "bulk" /\ task'[t].pc = "rejected") =>
                   (es' = es /\ cache' = cache)
             /\ task[t].pc = "rejected" => task'[t] = task[t]]_vars

\* the bulk write of the first of two pages has thrown; the run began with
\* a watermark, which is still there
C36_Witness ==
    \E t \in Tasks :
       /\ BulkFailed(t)
       /\ Len(src[t]) = 2
       /\ LastRequested(t) = 1
       /\ WatermarkOf(t) = 0

\* C37: a cache search that fails does not reject the task: whatever the
\* answer to the search, the step that takes it sends the first page
\* request; after a failed search the run has no last timestamp, none of
\* its requests carries a since, whatever the cache holds, and when the
\* task is fulfilled the cache holds the timestamp the run has taken.
C37_CacheReadFailureIsNotFatal ==
    /\ [](\A t \in Tasks :
            task[t].cacheErrors > 0 =>
               /\ task[t].cacheErrors = 1
               /\ task[t].lastFetchTimestamp = null
               /\ task[t].currentTimestamp # null
               /\ \A i \in 1..Len(task[t].requests) : task[t].requests[i].since = null
               /\ task[t].pc = "fulfilled" => WatermarkOf(t) = task[t].currentTimestamp)
    /\ [][\A t \in Tasks :
             (task[t].pc = "loadCache" /\ task'[t] # task[t]) =>
                /\ task'[t].pc = "listForRepo"
                /\ Len(task'[t].requests) = 1
                /\ task'[t].requests[1].url = RouteUrl
                /\ task'[t].cacheErrors > 0 => task'[t].requests[1].since = null]_vars

\* the cache held a watermark, the search for it failed, the run fetched
\* without since and has committed its own timestamp
C37_Witness ==
    \E t \in Tasks :
       /\ task[t].cacheErrors = 1
       /\ StartWatermark(t) = 0
       /\ task[t].pc = "fulfilled"
       /\ task[t].fetched = 2
       /\ WatermarkOf(t) = task[t].currentTimestamp

\* the positions of the transferred events of the timeline of a raw record
TransferEvents(raw) ==
    { j \in 1..Len(raw.timeline) : raw.timeline[j].event = "transferred" }

====
